---------------------------- MODULE Spec2Model ----------------------------
(***************************************************************************)
(* Payroll distribution engine: the record pipeline (CSV parser and        *)
(* messy-data normaliser, validator, compliance gate, transformer), the    *)
(* error/correction ledger kept in localStorage, and the correction        *)
(* workflow of the processing dashboard.                                   *)
(*                                                                         *)
(* Conventions.  A JavaScript object is a TLA+ function whose DOMAIN is    *)
(* the set of its own keys; a missing key reads as undefined.  Strings are *)
(* TLA+ strings, inspected character by character with SubSeq.  A value    *)
(* produced by generateErrorId() or new Date() is the value of the counter *)
(* tick, which every such call advances, so ids are unique and times       *)
(* strictly increase.  Employee records are objects shared by reference    *)
(* (the array in App, the processing result and the correction modal all   *)
(* point at the same object), so they live in heap and are named by        *)
(* references.                                                             *)
(***************************************************************************)
EXTENDS Integers, Sequences, FiniteSets, TLC

VARIABLES
    ls,      \* localStorage: the four keys the program uses
    heap,    \* reference -> employee record object
    app,     \* App.tsx state: employees, warnings, headerFields, activeTab
    parse,   \* processCSV: the file being parsed and the parser's locals
    proc,    \* processEmployees: the run in flight and its locals
    dash,    \* ProcessingDashboard / useProcessing / ErrorCorrection state
    tick,    \* source of generateErrorId() and new Date()
    fn       \* harness of the pure functions: [op, arg, out]

vars == <<ls, heap, app, parse, proc, dash, tick, fn>>

(***************************************************************************)
(* Bounds of the model.                                                    *)
(***************************************************************************)
MaxRows == 2          \* data rows of an uploaded file
MaxUploads == 2       \* uploads in one behaviour
MaxRuns == 1          \* processEmployees runs in one behaviour of Spec
MaxBatchRuns == 2     \* processEmployees runs in one behaviour of SpecProcess
MaxCorrections == 1   \* corrections recorded in one behaviour
MaxMappingOps == 1    \* save / import / reset of a mapping in one behaviour
MaxLedgerOps == 4     \* calls of the ledger API in one behaviour of SpecLedger
MaxTransformOps == 3  \* calls in one behaviour of SpecTransform
MaxBroken == 2        \* rules that a record given to the validator violates at once

NULL == "<null>"             \* null, or a localStorage key that is not set
UNDEFINED == "<undefined>"   \* the value of a missing property

(***************************************************************************)
(* JavaScript helpers.                                                     *)
(***************************************************************************)
\* obj[key]
Get(obj, key) == IF key \in DOMAIN obj THEN obj[key] ELSE UNDEFINED

\* the truthiness of a string-or-undefined value
Truthy(v) == v # UNDEFINED /\ v # NULL /\ v # ""

\* v || ''
OrEmpty(v) == IF Truthy(v) THEN v ELSE ""

\* `${v}`
Interp(v) == IF v = UNDEFINED THEN "undefined" ELSE IF v = NULL THEN "null" ELSE v

\* { ...obj, key: value }
Put(obj, key, value) ==
    [k \in DOMAIN obj \cup {key} |-> IF k = key THEN value ELSE obj[k]]

\* delete obj[key] / rest destructuring without keys
Without(obj, keys) == [k \in DOMAIN obj \ keys |-> obj[k]]

Char(s, i) == SubSeq(s, i, i)

Digits == {"0", "1", "2", "3", "4", "5", "6", "7", "8", "9"}
Upper == {"A", "B", "C", "D", "E", "F", "G", "H", "I", "J", "K", "L", "M",
          "N", "O", "P", "Q", "R", "S", "T", "U", "V", "W", "X", "Y", "Z"}
Lower == {"a", "b", "c", "d", "e", "f", "g", "h", "i", "j", "k", "l", "m",
          "n", "o", "p", "q", "r", "s", "t", "u", "v", "w", "x", "y", "z"}
Space == {" "}

UpperOf(c) ==
    CASE c = "a" -> "A" [] c = "b" -> "B" [] c = "c" -> "C" [] c = "d" -> "D"
      [] c = "e" -> "E" [] c = "f" -> "F" [] c = "g" -> "G" [] c = "h" -> "H"
      [] c = "i" -> "I" [] c = "j" -> "J" [] c = "k" -> "K" [] c = "l" -> "L"
      [] c = "m" -> "M" [] c = "n" -> "N" [] c = "o" -> "O" [] c = "p" -> "P"
      [] c = "q" -> "Q" [] c = "r" -> "R" [] c = "s" -> "S" [] c = "t" -> "T"
      [] c = "u" -> "U" [] c = "v" -> "V" [] c = "w" -> "W" [] c = "x" -> "X"
      [] c = "y" -> "Y" [] c = "z" -> "Z" [] OTHER -> c

RECURSIVE ToUpperCase(_)
ToUpperCase(s) ==
    IF s = "" THEN "" ELSE UpperOf(Char(s, 1)) \o ToUpperCase(SubSeq(s, 2, Len(s)))

RECURSIVE TrimStart(_)
TrimStart(s) ==
    IF s # "" /\ Char(s, 1) \in Space THEN TrimStart(SubSeq(s, 2, Len(s))) ELSE s

RECURSIVE TrimEnd(_)
TrimEnd(s) ==
    IF s # "" /\ Char(s, Len(s)) \in Space THEN TrimEnd(SubSeq(s, 1, Len(s) - 1)) ELSE s

\* String.prototype.trim
Trim(s) == TrimEnd(TrimStart(s))

\* every character of s[from..to] is in the class
AllIn(s, from, to, class) == \A i \in from..to : Char(s, i) \in class

RECURSIVE NatToString(_)
NatToString(n) ==
    IF n < 10 THEN Char("0123456789", n + 1)
    ELSE NatToString(n \div 10) \o Char("0123456789", (n % 10) + 1)

Range(s) == {s[i] : i \in DOMAIN s}

\* generateErrorId() and new Date().toISOString() at tick t
IdOf(t) == "error_" \o NatToString(t)
TimeOf(t) == "T" \o NatToString(t)

(***************************************************************************)
(* Numbers.  parseFloat reads the longest decimal prefix: optional spaces, *)
(* an optional sign, digits with an optional fraction.  A number is        *)
(* [nan, num, den]: num / den with den a power of ten.                     *)
(***************************************************************************)
NaN == [nan |-> TRUE, num |-> 0, den |-> 1]

DigitVal(c) == CHOOSE d \in 0..9 : Char("0123456789", d + 1) = c

\* the length of the run of digits of s that starts at position i
RECURSIVE DigitRun(_, _)
DigitRun(s, i) ==
    IF i <= Len(s) /\ Char(s, i) \in Digits THEN 1 + DigitRun(s, i + 1) ELSE 0

RECURSIVE DigitsValue(_)
DigitsValue(s) ==
    IF s = "" THEN 0 ELSE DigitsValue(SubSeq(s, 1, Len(s) - 1)) * 10 + DigitVal(Char(s, Len(s)))

RECURSIVE Pow10(_)
Pow10(n) == IF n = 0 THEN 1 ELSE 10 * Pow10(n - 1)

\* the steps of parseFloat: the sign, the digits, the fraction, the value
FloatValue(neg, u, ni, nf) ==
    IF ni = 0 /\ nf = 0 THEN NaN
    ELSE [nan |-> FALSE,
          num |-> (IF neg THEN 0 - 1 ELSE 1)
                    * (DigitsValue(SubSeq(u, 1, ni)) * Pow10(nf)
                         + DigitsValue(SubSeq(u, ni + 2, ni + 1 + nf))),
          den |-> Pow10(nf)]

FloatFraction(neg, u, ni) ==
    FloatValue(neg, u, ni,
               IF ni < Len(u) /\ Char(u, ni + 1) = "." THEN DigitRun(u, ni + 2) ELSE 0)

FloatDigits(neg, u) == FloatFraction(neg, u, DigitRun(u, 1))

FloatSign(t) ==
    FloatDigits(t # "" /\ Char(t, 1) = "-",
                IF t # "" /\ Char(t, 1) \in {"-", "+"} THEN SubSeq(t, 2, Len(t)) ELSE t)

parseFloat(v) ==
    IF v = UNDEFINED \/ v = NULL THEN NaN ELSE FloatSign(TrimStart(v))

\* a < b, a <= b for numbers that are not NaN (any comparison with NaN is false)
NumLess(a, b) == ~a.nan /\ ~b.nan /\ a.num * b.den < b.num * a.den
NumAdd(a, b) ==
    IF a.nan \/ b.nan THEN NaN
    ELSE [nan |-> FALSE, num |-> a.num * b.den + b.num * a.den, den |-> a.den * b.den]
NumOf(n) == [nan |-> FALSE, num |-> n, den |-> 1]
NumAbs(a) == IF a.nan THEN NaN ELSE [a EXCEPT !.num = IF a.num < 0 THEN 0 - a.num ELSE a.num]

\* Number.prototype.toString of a number of the model (digits, then the
\* fraction without trailing zeros)
RECURSIVE FracDigits(_, _)
FracDigits(num, den) ==
    IF den = 1 \/ num = 0 THEN ""
    ELSE NatToString((num * 10) \div den) \o FracDigits((num * 10) % den, den)

NumToString(a) ==
    IF a.nan THEN "NaN"
    ELSE LET m == IF a.num < 0 THEN 0 - a.num ELSE a.num
             f == FracDigits(m % a.den, a.den)
         IN  (IF a.num < 0 THEN "-" ELSE "") \o NatToString(m \div a.den)
               \o (IF f = "" THEN "" ELSE "." \o f)

(***************************************************************************)
(* Validator: format predicates.                                           *)
(***************************************************************************)
\* /^\d{4}-\d{2}-\d{2}$/
MatchesDatePattern(s) ==
    /\ Len(s) = 10
    /\ AllIn(s, 1, 4, Digits) /\ Char(s, 5) = "-"
    /\ AllIn(s, 6, 7, Digits) /\ Char(s, 8) = "-"
    /\ AllIn(s, 9, 10, Digits)

DaysInMonth(y, m) ==
    IF m \in {4, 6, 9, 11} THEN 30
    ELSE IF m = 2 THEN (IF (y % 4 = 0 /\ y % 100 # 0) \/ y % 400 = 0 THEN 29 ELSE 28)
    ELSE 31

\* new Date(s) of a string that matches the pattern is a valid date.  Month
\* 01..12 and day 01..31 are required by every engine; a day beyond the
\* month's length (02-30) is an invalid date in the ECMAScript grammar, and
\* engines that roll the day over (lenient) accept it.
DateParses(s, lenient) ==
    LET y == DigitsValue(SubSeq(s, 1, 4))
        m == DigitsValue(SubSeq(s, 6, 7))
        d == DigitsValue(SubSeq(s, 9, 10))
    IN  /\ m \in 1..12
        /\ d \in 1..31
        /\ (lenient \/ d <= DaysInMonth(y, m))

isValidDate(dateString, lenient) ==
    MatchesDatePattern(dateString) /\ DateParses(dateString, lenient)

\* /^\d{3}-\d{2}-\d{4}$/ or /^XXX-XX-\d{4}$/
isValidSSN(ssn) ==
    /\ Len(ssn) = 11
    /\ Char(ssn, 4) = "-" /\ Char(ssn, 7) = "-"
    /\ AllIn(ssn, 8, 11, Digits)
    /\ \/ AllIn(ssn, 1, 3, Digits) /\ AllIn(ssn, 5, 6, Digits)
       \/ SubSeq(ssn, 1, 7) = "XXX-XX-"

\* /^[^\s@]+@[^\s@]+\.[^\s@]+$/
isValidEmail(email) ==
    LET n == Len(email)
        ats == {i \in 1..n : Char(email, i) = "@"}
    IN  /\ Cardinality(ats) = 1
        /\ \A i \in 1..n : Char(email, i) \notin Space
        /\ LET at == CHOOSE i \in ats : TRUE
           IN  /\ at > 1
               /\ \E dot \in (at + 2)..(n - 1) : Char(email, dot) = "."

isNumeric(value) == ~parseFloat(value).nan

\* /^\d{9}$/
isValidRoutingNumber(routing) == Len(routing) = 9 /\ AllIn(routing, 1, 9, Digits)

\* /^\d{5}(-\d{4})?$/
isValidZip(zip) ==
    \/ Len(zip) = 5 /\ AllIn(zip, 1, 5, Digits)
    \/ Len(zip) = 10 /\ AllIn(zip, 1, 5, Digits) /\ Char(zip, 6) = "-"
         /\ AllIn(zip, 7, 10, Digits)

\* /^[A-Z]{2}$/ of the upper-cased value
isValidStateCode(state) ==
    LET u == ToUpperCase(state) IN Len(u) = 2 /\ AllIn(u, 1, 2, Upper)

(***************************************************************************)
(* Validator: validateEmployeeRecord.                                      *)
(***************************************************************************)
REQUIRED_EMPLOYEE_FIELDS ==
    << "employee_id", "first_name", "last_name", "dob", "ssn", "home_street",
       "home_city", "home_state", "home_zip", "hire_date", "job_title",
       "flsa_status", "annual_salary", "pay_frequency", "fed_status",
       "fed_allowances", "fed_extra_wh_per_paycheck", "state_code",
       "state_extra_wh_per_paycheck", "i9_status", "e_verify_status",
       "dd1_routing_number", "dd1_account_number", "dd1_account_type",
       "dd1_split_type", "dd1_split_value" >>

validPayFrequencies == <<"Weekly", "Bi-weekly", "Semi-monthly", "Monthly">>

\* an undefined column index
NoColumn == 0 - 1

\* headerFields.indexOf(fieldName), undefined when there is none (and when
\* headerFields is undefined or empty)
getColumnIndex(headerFields, fieldName) ==
    IF headerFields = <<>> THEN NoColumn
    ELSE IF \E i \in DOMAIN headerFields : headerFields[i] = fieldName
         THEN (CHOOSE i \in DOMAIN headerFields :
                  /\ headerFields[i] = fieldName
                  /\ \A j \in 1..(i - 1) : headerFields[j] # fieldName) - 1
         ELSE NoColumn

\* what a rule passes to createError
Finding(field, value, errorType, message, suggestedFix) ==
    [field |-> field, value |-> value, errorType |-> errorType,
     message |-> message, suggestedFix |-> suggestedFix]

\* one optional finding
When(cond, finding) == IF cond THEN <<finding>> ELSE <<>>

\* !value || value.trim() === ''
IsMissing(value) == ~Truthy(value) \/ Trim(value) = ""

MissingFields(record) ==
    SelectSeq(REQUIRED_EMPLOYEE_FIELDS, LAMBDA field : IsMissing(Get(record, field)))

RequiredFindingsOf(missing) ==
    [i \in DOMAIN missing |->
        Finding(missing[i], "", "REQUIRED_FIELD_MISSING",
                "Required employee field '" \o missing[i] \o "' is missing or empty",
                "Please provide a value for " \o missing[i])]

RequiredFindings(record) == RequiredFindingsOf(MissingFields(record))

\* a rule of the shape: if (record.f && !ok(record.f)) push INVALID_FORMAT
FormatFinding(record, field, ok, message, suggestedFix) ==
    LET value == Get(record, field)
    IN  When(Truthy(value) /\ ~ok,
             Finding(field, value, "INVALID_FORMAT", message \o Interp(value), suggestedFix))

FormatFindings(record, lenient) ==
    LET V(f) == OrEmpty(Get(record, f))
    IN  FormatFinding(record, "dob", isValidDate(V("dob"), lenient),
                      "Date of birth must be in YYYY-MM-DD format, got: ",
                      "Format as YYYY-MM-DD (e.g., 1990-05-15)")
     \o FormatFinding(record, "hire_date", isValidDate(V("hire_date"), lenient),
                      "Hire date must be in YYYY-MM-DD format, got: ",
                      "Format as YYYY-MM-DD (e.g., 2025-11-01)")
     \o FormatFinding(record, "ssn", isValidSSN(V("ssn")),
                      "SSN must be in XXX-XX-XXXX format, got: ",
                      "Format as XXX-XX-XXXX")
     \o FormatFinding(record, "manager_email", isValidEmail(V("manager_email")),
                      "Invalid email format: ",
                      "Please provide a valid email address")
     \o FormatFinding(record, "home_state", isValidStateCode(V("home_state")),
                      "State code must be 2 letters, got: ",
                      "Use 2-letter state code (e.g., SC, GA, NC)")
     \o FormatFinding(record, "work_state", isValidStateCode(V("work_state")),
                      "State code must be 2 letters, got: ",
                      "Use 2-letter state code (e.g., SC, GA, NC)")
     \o FormatFinding(record, "home_zip", isValidZip(V("home_zip")),
                      "ZIP code must be 5 or 9 digits, got: ",
                      "Format as 12345 or 12345-6789")
     \o FormatFinding(record, "work_zip", isValidZip(V("work_zip")),
                      "ZIP code must be 5 or 9 digits, got: ",
                      "Format as 12345 or 12345-6789")
     \o FormatFinding(record, "dd1_routing_number",
                      isValidRoutingNumber(V("dd1_routing_number")),
                      "Routing number must be 9 digits, got: ",
                      "Provide a 9-digit routing number")
     \o FormatFinding(record, "dd2_routing_number",
                      Trim(V("dd2_routing_number")) = ""
                        \/ isValidRoutingNumber(V("dd2_routing_number")),
                      "Routing number must be 9 digits, got: ",
                      "Provide a 9-digit routing number or leave empty")
     \o FormatFinding(record, "annual_salary", isNumeric(V("annual_salary")),
                      "Annual salary must be numeric, got: ",
                      "Provide a numeric value (e.g., 120000)")
     \o FormatFinding(record, "flsa_status", V("flsa_status") \in {"Exempt", "Non-Exempt"},
                      "FLSA status must be 'Exempt' or 'Non-Exempt', got: ",
                      "Use \"Exempt\" or \"Non-Exempt\"")
     \o FormatFinding(record, "pay_frequency", V("pay_frequency") \in Range(validPayFrequencies),
                      "Pay frequency must be one of: Weekly, Bi-weekly, Semi-monthly, Monthly, got: ",
                      "Use one of: Weekly, Bi-weekly, Semi-monthly, Monthly")

SplitRules_strict(record, v1, v2, percent, dd2Percent) ==
    When(percent.nan \/ NumLess(percent, NumOf(0)) \/ NumLess(NumOf(100), percent),
         Finding("dd1_split_value", v1, "BUSINESS_LOGIC_ERROR",
                 "Split percentage must be between 0 and 100, got: " \o v1,
                 "Provide a percentage between 0 and 100"))
      \o When(/\ Get(record, "dd2_split_type") = "Percent" /\ Truthy(v2)
              /\ ~dd2Percent.nan /\ ~percent.nan
              /\ NumLess(NumOf(0),
                         NumAbs(NumAdd(NumAdd(percent, dd2Percent), NumOf(0 - 100)))),
              Finding("dd1_split_value", v1 \o " + " \o Interp(v2), "BUSINESS_LOGIC_ERROR",
                      "Direct deposit split percentages must sum to 100%, got: "
                         \o NumToString(NumAdd(percent, dd2Percent)) \o "%",
                      "Adjust split values so they sum to 100%"))

SplitRules_firstValue(record, v1, v2, percent, dd2Percent) ==
    When(percent.nan \/ NumLess(percent, NumOf(0)) \/ NumLess(NumOf(100), percent),
         Finding("dd1_split_value", v1, "BUSINESS_LOGIC_ERROR",
                 "Split percentage must be between 0 and 100, got: " \o v1,
                 "Provide a percentage between 0 and 100"))
      \o When(/\ Get(record, "dd2_split_type") = "Percent" /\ Truthy(v2)
              /\ ~dd2Percent.nan /\ ~percent.nan
              /\ NumLess([nan |-> FALSE, num |-> 1, den |-> 100],
                         NumAbs(NumAdd(NumAdd(percent, dd2Percent), NumOf(0 - 100)))),
              Finding("dd1_split_value", v1, "BUSINESS_LOGIC_ERROR",
                      "Direct deposit split percentages must sum to 100%, got: "
                         \o NumToString(NumAdd(percent, dd2Percent)) \o "%",
                      "Adjust split values so they sum to 100%"))

\* the direct-deposit split rules, given the two parsed percentages
SplitRules(record, v1, v2, percent, dd2Percent) ==
    When(percent.nan \/ NumLess(percent, NumOf(0)) \/ NumLess(NumOf(100), percent),
         Finding("dd1_split_value", v1, "BUSINESS_LOGIC_ERROR",
                 "Split percentage must be between 0 and 100, got: " \o v1,
                 "Provide a percentage between 0 and 100"))
      \o When(/\ Get(record, "dd2_split_type") = "Percent" /\ Truthy(v2)
              /\ ~dd2Percent.nan /\ ~percent.nan
              /\ NumLess([nan |-> FALSE, num |-> 1, den |-> 100],
                         NumAbs(NumAdd(NumAdd(percent, dd2Percent), NumOf(0 - 100)))),
              Finding("dd1_split_value", v1 \o " + " \o Interp(v2), "BUSINESS_LOGIC_ERROR",
                      "Direct deposit split percentages must sum to 100%, got: "
                         \o NumToString(NumAdd(percent, dd2Percent)) \o "%",
                      "Adjust split values so they sum to 100%"))

\* the direct-deposit split rules
SplitFindings(record) ==
    IF Get(record, "dd1_split_type") = "Percent" /\ Truthy(Get(record, "dd1_split_value"))
    THEN SplitRules(record, Get(record, "dd1_split_value"), Get(record, "dd2_split_value"),
                    parseFloat(Get(record, "dd1_split_value")),
                    parseFloat(Get(record, "dd2_split_value")))
    ELSE <<>>

\* createError: the finding with a fresh id, the row identifier, the 1-based
\* row number, the column index and the creation time
createError(finding, record, rowIndex, headerFields, t) ==
    [id |-> IdOf(t),
     rowId |-> IF Truthy(Get(record, "employee_id")) THEN record["employee_id"]
               ELSE "row_" \o NatToString(rowIndex),
     row |-> rowIndex + 1,
     field |-> finding.field,
     columnIndex |-> getColumnIndex(headerFields, finding.field),
     value |-> finding.value,
     errorType |-> finding.errorType,
     message |-> finding.message,
     suggestedFix |-> finding.suggestedFix,
     timestamp |-> TimeOf(t)]

\* the errors createError makes of the findings, the first at tick t0
ErrorsOf(findings, record, rowIndex, headerFields, t0) ==
    [k \in 1..Len(findings) |->
        createError(findings[k], record, rowIndex, headerFields, t0 + k - 1)]

validateEmployeeRecord_firstOnly(record, rowIndex, headerFields, lenient, t0) ==
    ErrorsOf(SubSeq(RequiredFindings(record) \o FormatFindings(record, lenient)
                      \o SplitFindings(record), 1, 1),
             record, rowIndex, headerFields, t0)

\* the errors of a record, the first created at tick t0
validateEmployeeRecord(record, rowIndex, headerFields, lenient, t0) ==
    ErrorsOf(RequiredFindings(record) \o FormatFindings(record, lenient)
               \o SplitFindings(record),
             record, rowIndex, headerFields, t0)

(***************************************************************************)
(* Validator: validateDETRecord.  It checks the three tracking fields and  *)
(* then repeats the employee rules, building each error in place.          *)
(***************************************************************************)
REQUIRED_DET_FIELDS == <<"record_type", "record_sequence", "company_id">>

RecordTypeFindings_upper(record) ==
    When(ToUpperCase(OrEmpty(Get(record, "record_type"))) # "DET",
         Finding("record_type", OrEmpty(Get(record, "record_type")), "INVALID_FORMAT",
                 "Expected record_type 'DET', got '"
                    \o Interp(Get(record, "record_type")) \o "'",
                 "Set record_type to 'DET' for detail records"))

\* if (record.record_type !== 'DET')
RecordTypeFindings(record) ==
    When(Get(record, "record_type") # "DET",
         Finding("record_type", OrEmpty(Get(record, "record_type")), "INVALID_FORMAT",
                 "Expected record_type 'DET', got '"
                    \o Interp(Get(record, "record_type")) \o "'",
                 "Set record_type to 'DET' for detail records"))

\* the required tracking fields that are missing or blank
DetRequiredFindings(record) ==
    LET missing == SelectSeq(REQUIRED_DET_FIELDS,
                             LAMBDA field : \/ ~Truthy(Get(record, field))
                                            \/ Trim(Get(record, field)) = "")
    IN  [i \in DOMAIN missing |->
            Finding(missing[i], "", "REQUIRED_FIELD_MISSING",
                    "Required DET field '" \o missing[i] \o "' is missing or empty",
                    "Please provide a value for " \o missing[i])]

\* if (record.record_sequence && !isNumeric(record.record_sequence))
RecordSequenceFindings(record) ==
    LET value == Get(record, "record_sequence")
    IN  When(Truthy(value) /\ ~isNumeric(OrEmpty(value)),
             Finding("record_sequence", value, "INVALID_FORMAT",
                     "Record sequence must be numeric, got: " \o Interp(value),
                     "Provide a numeric sequence number"))

\* the required employee fields, as validateDETRecord checks them
DetEmployeeRequiredFindings(record) ==
    LET missing == SelectSeq(REQUIRED_EMPLOYEE_FIELDS,
                             LAMBDA field : \/ ~Truthy(Get(record, field))
                                            \/ Trim(Get(record, field)) = "")
    IN  [i \in DOMAIN missing |->
            Finding(missing[i], "", "REQUIRED_FIELD_MISSING",
                    "Required employee field '" \o missing[i] \o "' is missing or empty",
                    "Please provide a value for " \o missing[i])]

\* one format rule of validateDETRecord: the field, whether its value
\* passes, and the texts of the error
DetRule(field, ok, message, suggestedFix) ==
    [field |-> field, ok |-> ok, message |-> message, suggestedFix |-> suggestedFix]

DetFormatRules(record, lenient) ==
    LET V(f) == OrEmpty(Get(record, f))
    IN  << DetRule("dob", isValidDate(V("dob"), lenient),
                   "Date of birth must be in YYYY-MM-DD format, got: ",
                   "Format as YYYY-MM-DD (e.g., 1990-05-15)"),
           DetRule("hire_date", isValidDate(V("hire_date"), lenient),
                   "Hire date must be in YYYY-MM-DD format, got: ",
                   "Format as YYYY-MM-DD (e.g., 2025-11-01)"),
           DetRule("ssn", isValidSSN(V("ssn")),
                   "SSN must be in XXX-XX-XXXX format, got: ", "Format as XXX-XX-XXXX"),
           DetRule("manager_email", isValidEmail(V("manager_email")),
                   "Invalid email format: ", "Please provide a valid email address"),
           DetRule("home_state", isValidStateCode(V("home_state")),
                   "State code must be 2 letters, got: ",
                   "Use 2-letter state code (e.g., SC, GA, NC)"),
           DetRule("work_state", isValidStateCode(V("work_state")),
                   "State code must be 2 letters, got: ",
                   "Use 2-letter state code (e.g., SC, GA, NC)"),
           DetRule("home_zip", isValidZip(V("home_zip")),
                   "ZIP code must be 5 or 9 digits, got: ", "Format as 12345 or 12345-6789"),
           DetRule("work_zip", isValidZip(V("work_zip")),
                   "ZIP code must be 5 or 9 digits, got: ", "Format as 12345 or 12345-6789"),
           DetRule("dd1_routing_number", isValidRoutingNumber(V("dd1_routing_number")),
                   "Routing number must be 9 digits, got: ",
                   "Provide a 9-digit routing number"),
           DetRule("dd2_routing_number",
                   ~(Trim(V("dd2_routing_number")) # ""
                       /\ ~isValidRoutingNumber(V("dd2_routing_number"))),
                   "Routing number must be 9 digits, got: ",
                   "Provide a 9-digit routing number or leave empty"),
           DetRule("annual_salary", isNumeric(V("annual_salary")),
                   "Annual salary must be numeric, got: ",
                   "Provide a numeric value (e.g., 120000)"),
           DetRule("flsa_status", V("flsa_status") \in {"Exempt", "Non-Exempt"},
                   "FLSA status must be 'Exempt' or 'Non-Exempt', got: ",
                   "Use \"Exempt\" or \"Non-Exempt\""),
           DetRule("pay_frequency",
                   \E i \in DOMAIN validPayFrequencies :
                       validPayFrequencies[i] = V("pay_frequency"),
                   "Pay frequency must be one of: Weekly, Bi-weekly, Semi-monthly, Monthly, got: ",
                   "Use one of: Weekly, Bi-weekly, Semi-monthly, Monthly") >>

DetFormatFindings_noZip(record, lenient) ==
    LET rules == DetFormatRules(record, lenient)
        failed == SelectSeq(rules, LAMBDA r : /\ Truthy(Get(record, r.field)) /\ ~r.ok
                                              /\ r.field # "home_zip")
    IN  [i \in DOMAIN failed |->
            Finding(failed[i].field, record[failed[i].field], "INVALID_FORMAT",
                    failed[i].message \o record[failed[i].field], failed[i].suggestedFix)]

\* the format rules that a non-empty value of the record fails, in order
DetFormatFindings(record, lenient) ==
    LET rules == DetFormatRules(record, lenient)
        failed == SelectSeq(rules, LAMBDA r : Truthy(Get(record, r.field)) /\ ~r.ok)
    IN  [i \in DOMAIN failed |->
            Finding(failed[i].field, record[failed[i].field], "INVALID_FORMAT",
                    failed[i].message \o record[failed[i].field], failed[i].suggestedFix)]

\* the direct-deposit split rules, as validateDETRecord has them
DetSplitFindings(record) ==
    LET v1 == Get(record, "dd1_split_value")
        v2 == Get(record, "dd2_split_value")
        percent == parseFloat(OrEmpty(v1))
        dd2Percent == parseFloat(OrEmpty(v2))
        total == NumAdd(percent, dd2Percent)
    IN  IF Get(record, "dd1_split_type") = "Percent" /\ Truthy(v1)
        THEN When(percent.nan \/ NumLess(percent, NumOf(0)) \/ NumLess(NumOf(100), percent),
                  Finding("dd1_split_value", v1, "BUSINESS_LOGIC_ERROR",
                          "Split percentage must be between 0 and 100, got: " \o v1,
                          "Provide a percentage between 0 and 100"))
          \o IF Get(record, "dd2_split_type") = "Percent" /\ Truthy(v2)
             THEN When(/\ ~dd2Percent.nan /\ ~percent.nan
                       /\ NumLess([nan |-> FALSE, num |-> 1, den |-> 100],
                                  NumAbs(NumAdd(total, NumOf(0 - 100)))),
                       Finding("dd1_split_value", v1 \o " + " \o v2, "BUSINESS_LOGIC_ERROR",
                               "Direct deposit split percentages must sum to 100%, got: "
                                  \o NumToString(total) \o "%",
                               "Adjust split values so they sum to 100%"))
             ELSE <<>>
        ELSE <<>>

\* an error of validateDETRecord: built in place, without a column index
DetError(finding, record, rowIndex, t) ==
    [id |-> IdOf(t),
     rowId |-> IF Truthy(Get(record, "employee_id")) THEN record["employee_id"]
               ELSE IF Truthy(Get(record, "record_sequence")) THEN record["record_sequence"]
               ELSE "row_" \o NatToString(rowIndex),
     row |-> rowIndex + 1,
     field |-> finding.field,
     value |-> finding.value,
     errorType |-> finding.errorType,
     message |-> finding.message,
     suggestedFix |-> finding.suggestedFix,
     timestamp |-> TimeOf(t)]

DetFindings(record, lenient) ==
    RecordTypeFindings(record) \o DetRequiredFindings(record)
      \o RecordSequenceFindings(record) \o DetEmployeeRequiredFindings(record)
      \o DetFormatFindings(record, lenient) \o DetSplitFindings(record)

\* the errors of a detail record, the first created at tick t0
validateDETRecord(record, rowIndex, lenient, t0) ==
    LET findings == DetFindings(record, lenient)
    IN  [k \in 1..Len(findings) |-> DetError(findings[k], record, rowIndex, t0 + k - 1)]

(***************************************************************************)
(* Compliance gate.                                                        *)
(***************************************************************************)
isPayrollReady_i9Only(record) == Get(record, "i9_status") = "Completed"

isPayrollReady(record) ==
    /\ Get(record, "i9_status") = "Completed"
    /\ Get(record, "e_verify_status") = "Authorized"

(***************************************************************************)
(* Default mappings and their transformations.  A mapping is a record     *)
(* [provider, fieldMappings, transformations]; hasFieldMappings and        *)
(* hasTransformations tell whether the object has the property at all (a  *)
(* mapping read back from imported JSON may lack either).  A              *)
(* transformation table is the sequence of its entries in key order.      *)
(***************************************************************************)
LowerOf(c) ==
    IF c \in Upper
    THEN Char("abcdefghijklmnopqrstuvwxyz",
              CHOOSE i \in 1..26 : Char("ABCDEFGHIJKLMNOPQRSTUVWXYZ", i) = c)
    ELSE c

\* value.toLowerCase().replace(/\s+/g, '_')
RECURSIVE SnakeCase(_, _)
SnakeCase(s, inSpace) ==
    IF s = "" THEN ""
    ELSE LET c == Char(s, 1)
             rest == SubSeq(s, 2, Len(s))
         IN  IF c \in Space
             THEN (IF inSpace THEN "" ELSE "_") \o SnakeCase(rest, TRUE)
             ELSE LowerOf(c) \o SnakeCase(rest, FALSE)

NumMul(a, b) ==
    IF a.nan \/ b.nan THEN NaN
    ELSE [nan |-> FALSE, num |-> a.num * b.num, den |-> a.den * b.den]

\* a / n for a positive integer n
NumDiv(a, n) == IF a.nan THEN NaN ELSE [a EXCEPT !.den = a.den * n]

\* Number.prototype.toFixed(2): the nearest multiple of 0.01, the larger one
\* of two equally near
toFixed2(a) ==
    IF a.nan THEN "NaN"
    ELSE LET m == IF a.num < 0 THEN 0 - a.num ELSE a.num
             n == (2 * m * 100 + a.den) \div (2 * a.den)
             cents == n % 100
         IN  (IF a.num < 0 THEN "-" ELSE "") \o NatToString(n \div 100) \o "."
               \o (IF cents < 10 THEN "0" ELSE "") \o NatToString(cents)

calculatePerPaycheckRate(annualSalary, payFrequency) ==
    LET salary == parseFloat(annualSalary)
    IN  IF salary.nan THEN NumOf(0)
        ELSE CASE payFrequency = "Weekly" -> NumDiv(salary, 52)
               [] payFrequency = "Bi-weekly" -> NumDiv(salary, 26)
               [] payFrequency = "Semi-monthly" -> NumDiv(salary, 24)
               [] payFrequency = "Monthly" -> NumDiv(salary, 12)
               [] OTHER -> NumDiv(salary, 26)

FieldMapping(sourceField, targetField) ==
    [sourceField |-> sourceField, targetField |-> targetField]

\* an entry of a transformation table: a function of the program, by name
Fn(key, name) == [key |-> key, callable |-> TRUE, truthy |-> TRUE, name |-> name]

\* an entry of a transformation table read back from JSON: never a function
JsonEntry(key, truthy) == [key |-> key, callable |-> FALSE, truthy |-> truthy, name |-> ""]

adpMapping ==
    [provider |-> "ADP", hasFieldMappings |-> TRUE, hasTransformations |-> TRUE,
     fieldMappings |->
        << FieldMapping("employee_id", "Employee No"), FieldMapping("ssn", "SSN"),
           FieldMapping("first_name", "FName"), FieldMapping("last_name", "LName"),
           FieldMapping("dob", "DOB"), FieldMapping("home_street", "Home_Addr1"),
           FieldMapping("home_city", "Home_City"), FieldMapping("home_state", "Home_State"),
           FieldMapping("home_zip", "Home_Zip"), FieldMapping("work_street", "Work_Addr1"),
           FieldMapping("work_city", "Work_City"), FieldMapping("work_state", "Work_State"),
           FieldMapping("work_zip", "Work_Zip"), FieldMapping("hire_date", "HiredDate"),
           FieldMapping("job_title", "JobTitle"), FieldMapping("department", "Dept"),
           FieldMapping("flsa_status", "FLSA_Status"), FieldMapping("pay_frequency", "PayFreq"),
           FieldMapping("fed_status", "Fed_W4_Status"),
           FieldMapping("fed_allowances", "Fed_W4_Allow"),
           FieldMapping("fed_extra_wh_per_paycheck", "Fed_W4_Extra"),
           FieldMapping("state_code", "State_Tax_Code"),
           FieldMapping("state_extra_wh_per_paycheck", "State_Extra_WH"),
           FieldMapping("local_tax_code_1", "Local_Tax_Code_1"),
           FieldMapping("dd1_routing_number", "DD1_Routing"),
           FieldMapping("dd1_account_number", "DD1_Acct"),
           FieldMapping("dd1_account_type", "DD1_Type"),
           FieldMapping("dd1_split_type", "DD1_SplitType"),
           FieldMapping("dd1_split_value", "DD1_SplitValue"),
           FieldMapping("dd2_routing_number", "DD2_Routing"),
           FieldMapping("dd2_account_number", "DD2_Acct"),
           FieldMapping("dd2_account_type", "DD2_Type") >>,
     transformations |->
        << Fn("Fed_W4_Status", "adp.Fed_W4_Status"), Fn("PayRate", "PayRate"),
           Fn("Deduct_Code_1", "adp.Deduct_Code_1"), Fn("Deduct_Amt_1", "adp.Deduct_Amt_1"),
           Fn("Deduct_Code_2", "adp.Deduct_Code_2"), Fn("Deduct_Amt_2", "adp.Deduct_Amt_2"),
           Fn("Deduct_Code_3", "adp.Deduct_Code_3"), Fn("Deduct_Amt_3", "adp.Deduct_Amt_3"),
           Fn("Deduct_Code_4", "adp.Deduct_Code_4"), Fn("Deduct_Amt_4", "adp.Deduct_Amt_4") >>]

quickBooksMapping ==
    [provider |-> "QuickBooks", hasFieldMappings |-> TRUE, hasTransformations |-> TRUE,
     fieldMappings |->
        << FieldMapping("employee_id", "Employee #"), FieldMapping("ssn", "SSN"),
           FieldMapping("dob", "Date of Birth"), FieldMapping("hire_date", "Hire Date"),
           FieldMapping("job_title", "Job Title"), FieldMapping("department", "Department"),
           FieldMapping("flsa_status", "FLSA Status"), FieldMapping("pay_frequency", "Per"),
           FieldMapping("fed_status", "Federal Filing Status"),
           FieldMapping("fed_allowances", "Federal Allowances"),
           FieldMapping("fed_extra_wh_per_paycheck", "Federal Extra Withholding"),
           FieldMapping("state_code", "State Tax (Work)"),
           FieldMapping("state_extra_wh_per_paycheck", "State Extra Withholding"),
           FieldMapping("local_tax_code_1", "Local Tax"),
           FieldMapping("i9_status", "I-9 Status"),
           FieldMapping("e_verify_status", "E-Verify Status"),
           FieldMapping("gender", "EEO Gender"), FieldMapping("ethnicity", "EEO Ethnicity") >>,
     transformations |->
        << Fn("Full Name", "qb.Full Name"), Fn("Home Address", "qb.Home Address"),
           Fn("Work Location", "qb.Work Location"), Fn("Pay Rate ($)", "PayRate"),
           Fn("Federal Filing Status", "qb.Federal Filing Status"),
           Fn("Direct Deposit 1", "qb.Direct Deposit 1"),
           Fn("Direct Deposit 2", "qb.Direct Deposit 2"),
           Fn("Health Deduction", "qb.Health Deduction"),
           Fn("Retirement Deduction", "qb.Retirement Deduction"),
           Fn("Retirement Loan", "qb.Retirement Loan"), Fn("Garnishment", "qb.Garnishment") >>]

\* the retirement contribution per paycheck, shared by both providers
RetirementAmount(record) ==
    LET perPaycheck == calculatePerPaycheckRate(Get(record, "annual_salary"),
                                                Get(record, "pay_frequency"))
        contributionPercent ==
            NumDiv(parseFloat(Get(record, "retirement_contribution_percent")), 100)
    IN  toFixed2(NumMul(perPaycheck, contributionPercent))

\* the call name(value, record) of a transformation of the default mappings
ApplyTransformation(name, value, record) ==
    LET R(f) == Get(record, f)
        T(f) == Truthy(R(f))
        S(f) == Interp(R(f))
        loan == parseFloat(R("retirement_loan_repayment"))
    IN  CASE name = "adp.Fed_W4_Status" ->
               (CASE value = "Single" -> "S"
                  [] value = "Married" -> "M"
                  [] value = "Married Filing Separately" -> "MFS"
                  [] value = "Head of Household" -> "HOH"
                  [] OTHER -> value)
          [] name = "PayRate" ->
               toFixed2(calculatePerPaycheckRate(R("annual_salary"), R("pay_frequency")))
          [] name = "adp.Deduct_Code_1" -> OrEmpty(R("health_plan_name"))
          [] name = "adp.Deduct_Amt_1" ->
               IF T("health_deduction_per_paycheck") THEN R("health_deduction_per_paycheck")
               ELSE "0.00"
          [] name = "adp.Deduct_Code_2" -> OrEmpty(R("retirement_plan_type"))
          [] name = "adp.Deduct_Amt_2" ->
               IF T("retirement_plan_type") /\ T("annual_salary")
                    /\ T("retirement_contribution_percent")
               THEN RetirementAmount(record) ELSE "0.00"
          [] name = "adp.Deduct_Code_3" ->
               IF T("retirement_loan_repayment") /\ NumLess(NumOf(0), loan)
               THEN "401k Loan" ELSE ""
          [] name = "adp.Deduct_Amt_3" ->
               IF T("retirement_loan_repayment") THEN R("retirement_loan_repayment") ELSE "0.00"
          [] name = "adp.Deduct_Code_4" -> OrEmpty(R("garnishment_type"))
          [] name = "adp.Deduct_Amt_4" ->
               IF T("garnishment_amount_per_paycheck")
               THEN R("garnishment_amount_per_paycheck") ELSE "0.00"
          [] name = "qb.Full Name" -> Trim(S("first_name") \o " " \o S("last_name"))
          [] name = "qb.Home Address" ->
               Trim(S("home_street") \o ", " \o S("home_city") \o ", " \o S("home_state")
                      \o " " \o S("home_zip"))
          [] name = "qb.Work Location" ->
               Trim(S("work_street") \o ", " \o S("work_city") \o ", " \o S("work_state")
                      \o " " \o S("work_zip"))
          [] name = "qb.Federal Filing Status" ->
               (CASE value = "Single" -> "single"
                  [] value = "Married" -> "married_filing_jointly"
                  [] value = "Married Filing Separately" -> "married_filing_separately"
                  [] value = "Head of Household" -> "head_of_household"
                  [] OTHER -> SnakeCase(value, FALSE))
          [] name = "qb.Direct Deposit 1" ->
               IF T("dd1_routing_number") /\ T("dd1_account_number") /\ T("dd1_account_type")
               THEN R("dd1_routing_number") \o "-" \o R("dd1_account_number") \o "-"
                      \o R("dd1_account_type") \o "-"
                      \o (IF R("dd1_split_type") = "Percent"
                          THEN S("dd1_split_value") \o "%"
                          ELSE "$" \o S("dd1_split_value"))
               ELSE ""
          [] name = "qb.Direct Deposit 2" ->
               IF T("dd2_routing_number") /\ T("dd2_account_number") /\ T("dd2_account_type")
               THEN R("dd2_routing_number") \o "-" \o R("dd2_account_number") \o "-"
                      \o R("dd2_account_type")
               ELSE ""
          [] name = "qb.Health Deduction" ->
               IF T("health_plan_name") /\ T("health_deduction_per_paycheck")
               THEN R("health_plan_name") \o " - " \o R("health_deduction_per_paycheck")
               ELSE ""
          [] name = "qb.Retirement Deduction" ->
               IF T("retirement_plan_type") /\ T("annual_salary")
                    /\ T("retirement_contribution_percent")
               THEN R("retirement_plan_type") \o " - " \o R("retirement_contribution_percent")
                      \o "% ($" \o RetirementAmount(record) \o ")"
               ELSE ""
          [] name = "qb.Retirement Loan" ->
               IF T("retirement_loan_repayment") /\ NumLess(NumOf(0), loan)
               THEN "$" \o R("retirement_loan_repayment") ELSE ""
          [] name = "qb.Garnishment" ->
               IF T("garnishment_type") /\ T("garnishment_amount_per_paycheck")
               THEN R("garnishment_type") \o " - $" \o R("garnishment_amount_per_paycheck")
               ELSE ""

(***************************************************************************)
(* Transformer.                                                            *)
(***************************************************************************)
\* JSON.parse(JSON.stringify(mapping)): a property whose value is a function
\* is left out, so no entry of a stored transformation table is callable
JsonOf(mapping) ==
    [mapping EXCEPT !.transformations =
        SelectSeq(mapping.transformations, LAMBDA e : ~e.callable)]

\* getProviderMapping / getMapping: the stored mapping if the key is set,
\* else the built-in default
getProviderMapping(storage, provider) ==
    IF storage.mapping[provider].stored THEN storage.mapping[provider].value
    ELSE IF provider = "ADP" THEN adpMapping ELSE quickBooksMapping

\* mappingController.getMapping: the same reading of the same key
getMapping(storage, provider) ==
    IF storage.mapping[provider].stored THEN storage.mapping[provider].value
    ELSE IF provider = "ADP" THEN adpMapping ELSE quickBooksMapping

\* table[key]; a falsy entry (undefined) when the table has no such key
NoEntry == [key |-> "", callable |-> FALSE, truthy |-> FALSE, name |-> ""]

Lookup(table, key) ==
    IF \E i \in DOMAIN table : table[i].key = key
    THEN table[CHOOSE i \in DOMAIN table : table[i].key = key]
    ELSE NoEntry

Threw(out) == [threw |-> TRUE, record |-> out]
Returned(out) == [threw |-> FALSE, record |-> out]

\* the first loop assigns the target fields one mapping after the other, so
\* that the last mapping of a target field decides its value
LastMappingOf(mapping, targetField) ==
    mapping.fieldMappings[
        CHOOSE k \in DOMAIN mapping.fieldMappings :
            /\ mapping.fieldMappings[k].targetField = targetField
            /\ \A j \in DOMAIN mapping.fieldMappings :
                  j > k => mapping.fieldMappings[j].targetField # targetField]

\* mapping.transformations[targetField](...) is a TypeError: the table is
\* undefined, or the entry is truthy and no function
FieldThrows(mapping, fm) ==
    \/ ~mapping.hasTransformations
    \/ /\ Lookup(mapping.transformations, fm.targetField).truthy
       /\ ~Lookup(mapping.transformations, fm.targetField).callable

FieldValue_raw(mapping, employee, fm) == OrEmpty(Get(employee, fm.sourceField))

\* the value the first loop assigns to the target field of fm
FieldValue(mapping, employee, fm) ==
    IF Lookup(mapping.transformations, fm.targetField).truthy
    THEN ApplyTransformation(Lookup(mapping.transformations, fm.targetField).name,
                             OrEmpty(Get(employee, fm.sourceField)), employee)
    ELSE OrEmpty(Get(employee, fm.sourceField))

\* the first loop, over the (sourceField, targetField) pairs
FieldPass(mapping, employee) ==
    IF \E k \in DOMAIN mapping.fieldMappings : FieldThrows(mapping, mapping.fieldMappings[k])
    THEN Threw(<<>>)
    ELSE Returned([targetField \in {mapping.fieldMappings[k].targetField :
                                       k \in DOMAIN mapping.fieldMappings} |->
                      FieldValue(mapping, employee, LastMappingOf(mapping, targetField))])

\* the entries of the transformation table that the second loop applies:
\* those whose target field is still falsy after the first loop
DueEntries(mapping, first) ==
    {k \in DOMAIN mapping.transformations :
        ~Truthy(Get(first, mapping.transformations[k].key))}

TablePass_noDerived(mapping, employee, first, due) == Returned(first)

\* the second loop, over the entries of the transformation table (an object:
\* its keys are distinct, and an entry's value depends on the employee only)
TablePass(mapping, employee, first, due) ==
    IF \E k \in due : ~mapping.transformations[k].callable
    THEN Threw(<<>>)
    ELSE Returned([key \in DOMAIN first \cup {mapping.transformations[k].key : k \in due} |->
                      IF \E k \in due : mapping.transformations[k].key = key
                      THEN ApplyTransformation(
                               mapping.transformations[
                                   CHOOSE k \in due : mapping.transformations[k].key = key].name,
                               "", employee)
                      ELSE first[key]])

\* the part of transformToADP / transformToQuickBooks after the first loop
AfterFieldPass(mapping, employee, first) ==
    IF first.threw THEN first
    ELSE IF ~mapping.hasTransformations THEN Threw(<<>>)
    ELSE TablePass(mapping, employee, first.record, DueEntries(mapping, first.record))

\* transformToADP / transformToQuickBooks under the mapping in effect; threw
\* tells that the call ended in a TypeError
transform(mapping, employee) ==
    IF ~mapping.hasFieldMappings THEN Threw(<<>>)
    ELSE AfterFieldPass(mapping, employee, FieldPass(mapping, employee))

\* the target fields for which the second loop calls the transformation with
\* an empty source value, in a call that returns
InvokedBySecondLoop(mapping, first) ==
    IF first.threw \/ ~mapping.hasTransformations THEN {}
    ELSE {mapping.transformations[k].key : k \in DueEntries(mapping, first.record)}

SecondLoopCalls(mapping, employee) ==
    IF ~mapping.hasFieldMappings THEN {}
    ELSE InvokedBySecondLoop(mapping, FieldPass(mapping, employee))

transformToADP_counting(storage, employee) ==
    Returned([key \in {"Employee No"} |-> NatToString(fn.calls)])

transformToADP(storage, employee) == transform(getProviderMapping(storage, "ADP"), employee)

transformToQuickBooks(storage, employee) ==
    transform(getProviderMapping(storage, "QuickBooks"), employee)

(***************************************************************************)
(* CSV processor: parseAddress, processMessyData and the step callback of  *)
(* processCSV.  A parsed row is the object Papa builds from the header:    *)
(* normalised field name -> string.                                        *)
(***************************************************************************)
\* s.split(sep) for a one-character separator
RECURSIVE Split(_, _, _)
Split(s, sep, cur) ==
    IF s = "" THEN <<cur>>
    ELSE IF Char(s, 1) = sep THEN <<cur>> \o Split(SubSeq(s, 2, Len(s)), sep, "")
    ELSE Split(SubSeq(s, 2, Len(s)), sep, cur \o Char(s, 1))

\* s.split(/\s+/) of a trimmed, non-empty string
RECURSIVE SplitWords(_, _)
SplitWords(s, cur) ==
    IF s = "" THEN <<cur>>
    ELSE IF Char(s, 1) \in Space
         THEN <<cur>> \o SplitWords(TrimStart(s), "")
         ELSE SplitWords(SubSeq(s, 2, Len(s)), cur \o Char(s, 1))

\* parts.join(sep)
RECURSIVE Join(_, _)
Join(parts, sep) ==
    IF parts = <<>> THEN ""
    ELSE IF Len(parts) = 1 THEN parts[1]
    ELSE parts[1] \o sep \o Join(Tail(parts), sep)

\* the match of /(\d{5}(?:-\d{4})?)\s*$/ in a trimmed string: the length of
\* the ZIP code the string ends in, 0 when there is no match
ZipMatchLen(t) ==
    LET n == Len(t)
    IN  IF n >= 10 /\ AllIn(t, n - 3, n, Digits) /\ Char(t, n - 4) = "-"
           /\ AllIn(t, n - 9, n - 5, Digits)
        THEN 10
        ELSE IF n >= 5 /\ AllIn(t, n - 4, n, Digits) THEN 5
        ELSE 0

NoAddress == [ok |-> FALSE, street |-> "", city |-> "", state |-> "", zip |-> ""]

\* the return of parseAddress, from the zip and the trimmed comma-separated
\* parts before it
AddressOf(parts, zip) ==
    IF Len(parts) < 2 THEN NoAddress
    ELSE [ok |-> TRUE,
          street |-> Join(SubSeq(parts, 1, Len(parts) - 2), ", "),
          city |-> parts[Len(parts) - 1],
          state |-> parts[Len(parts)],
          zip |-> zip]

TrimAll(raw) == [i \in DOMAIN raw |-> Trim(raw[i])]

\* parseAddress of the trimmed string, zl the length of its zip match
AddressAt(trimmed, zl) ==
    IF zl = 0 THEN NoAddress
    ELSE AddressOf(TrimAll(Split(Trim(SubSeq(trimmed, 1, Len(trimmed) - zl)), ",", "")),
                   SubSeq(trimmed, Len(trimmed) - zl + 1, Len(trimmed)))

AddressIn(trimmed) ==
    IF trimmed = "" THEN NoAddress ELSE AddressAt(trimmed, ZipMatchLen(trimmed))

parseAddress_swapped(addressString) ==
    LET parsed == IF ~Truthy(addressString) THEN NoAddress ELSE AddressIn(Trim(addressString))
    IN  [parsed EXCEPT !.city = parsed.state, !.state = parsed.city]

\* parseAddress; ok = FALSE stands for the null result
parseAddress(addressString) ==
    IF ~Truthy(addressString) THEN NoAddress ELSE AddressIn(Trim(addressString))

Warning(row, rowIndex, field, originalValue, message, t) ==
    [id |-> IdOf(t),
     rowId |-> IF Truthy(Get(row, "employee_id")) THEN row["employee_id"]
               ELSE "row_" \o NatToString(rowIndex),
     row |-> rowIndex, field |-> field, originalValue |-> originalValue,
     message |-> message, timestamp |-> TimeOf(t)]

\* the split of one address group, given what parseAddress returned
AddressSplit(st, original, rowIndex, prefix, parsed) ==
    IF parsed.ok
    THEN [row |-> Without(Put(Put(Put(Put(st.row, prefix \o "_street", parsed.street),
                                      prefix \o "_city", parsed.city),
                                  prefix \o "_state", parsed.state),
                              prefix \o "_zip", parsed.zip),
                          {prefix \o "_address"}),
          warnings |-> Append(st.warnings,
              Warning(original, rowIndex, prefix \o "_address", st.row[prefix \o "_address"],
                      "Combined address field split into " \o prefix \o "_street, "
                         \o prefix \o "_city, " \o prefix \o "_state, "
                         \o prefix \o "_zip",
                      st.t)),
          t |-> st.t + 1]
    ELSE [st EXCEPT !.row = Without(st.row, {prefix \o "_address"})]

\* one address group of processMessyData: prefix is "home" or "work"
SplitAddress(st, original, rowIndex, prefix) ==
    IF ~Truthy(Get(st.row, prefix \o "_street")) /\ Truthy(Get(st.row, prefix \o "_address"))
    THEN AddressSplit(st, original, rowIndex, prefix,
                      parseAddress(Get(st.row, prefix \o "_address")))
    ELSE st

\* the split of the name, given the words of full_name
NameSplit(st, original, rowIndex, nameParts) ==
    IF Len(nameParts) >= 2
    THEN [row |-> Without(Put(Put(st.row, "first_name", nameParts[1]),
                               "last_name", Join(Tail(nameParts), " ")),
                          {"full_name"}),
          warnings |-> Append(st.warnings,
              Warning(original, rowIndex, "full_name", st.row["full_name"],
                      "Combined name field split into first_name and last_name",
                      st.t)),
          t |-> st.t + 1]
    ELSE [st EXCEPT !.row = Without(st.row, {"full_name"})]

SplitName(st, original, rowIndex) ==
    IF ~Truthy(Get(st.row, "first_name")) /\ Truthy(Get(st.row, "full_name"))
    THEN NameSplit(st, original, rowIndex, SplitWords(Trim(st.row["full_name"]), ""))
    ELSE st

processMessyData_trimmed(row, rowIndex, warnings, t0) ==
    [row |-> [k \in DOMAIN row \ {"home_address", "work_address", "full_name"} |->
                 Trim(row[k])],
     warnings |-> warnings, t |-> t0]

\* processMessyData: [row: the processed row, warnings: the caller's list
\* with the new warnings appended, t: the tick after the call]
processMessyData(row, rowIndex, warnings, t0) ==
    SplitName(SplitAddress(SplitAddress([row |-> row, warnings |-> warnings, t |-> t0],
                                        row, rowIndex, "home"),
                           row, rowIndex, "work"),
              row, rowIndex)

\* extractEmployeeData
extractEmployeeData(detRecord) ==
    Without(detRecord, {"record_type", "record_sequence", "company_id"})

\* Object.keys(row): the header's field names that the row has
ObjectKeys(header, row) == SelectSeq(header, LAMBDA k : k \in DOMAIN row)

ParseError(message, rowNumber) == [message |-> message, row |-> rowNumber]

\* the locals of processCSV before the first row
ParserStart(t0) ==
    [rowCounter |-> 0, processedRows |-> <<>>, detRecords |-> <<>>, warnings |-> <<>>,
     errors |-> <<>>, headerFields |-> <<>>, headersCaptured |-> FALSE, t |-> t0]

\* the row.record_type?.toUpperCase() === 'DET' test of the step callback
IsDetailRow(row) ==
    "record_type" \in DOMAIN row /\ ToUpperCase(row["record_type"]) = "DET"

StepCatch_unnumbered(p, rowNumber) ==
    [p EXCEPT !.errors = Append(@, ParseError("Failed to process row: Unknown error", 0))]

\* the catch block of the step callback, for a thrown value that is not an
\* Error; the row number is the row counter again
StepCatch(p, rowNumber) ==
    [p EXCEPT !.errors = Append(@,
        ParseError("Failed to process row " \o NatToString(rowNumber) \o ": Unknown error",
                   rowNumber))]

\* the two checks of the DET structure fields
MissingField(value, field, rowNumber, fieldList) ==
    IF Trim(value) = ""
    THEN <<ParseError("Row " \o NatToString(rowNumber) \o ": Missing required field '"
                        \o field \o "' in DET record. Available fields: " \o fieldList,
                      rowNumber)>>
    ELSE <<>>

\* the pushes of the step callback for a detail row: the errors of the
\* structure fields, the DET record and the employee record
PushDetail(p, rowNumber, cleanedRow, recordSequence, companyId, fieldList) ==
    [p EXCEPT !.errors = @ \o MissingField(recordSequence, "record_sequence", rowNumber, fieldList)
                           \o MissingField(companyId, "company_id", rowNumber, fieldList),
              !.detRecords = Append(@, Put(Put(cleanedRow, "record_sequence", recordSequence),
                                           "company_id", companyId)),
              !.processedRows =
                  Append(@, extractEmployeeData(
                                Put(Put(cleanedRow, "record_sequence", recordSequence),
                                    "company_id", companyId)))]

\* the step callback for a detail row, given what processMessyData returned
DetailStep(p, header, rowNumber, cleaned) ==
    PushDetail([p EXCEPT !.warnings = cleaned.warnings, !.t = cleaned.t],
               rowNumber, cleaned.row,
               OrEmpty(Get(cleaned.row, "record_sequence")),
               OrEmpty(Get(cleaned.row, "company_id")),
               Join(ObjectKeys(header, cleaned.row), ", "))

\* the call of onProgress for a detail row, within the try of the step
CallOnProgress(pushed, rowNumber, callbackThrows) ==
    IF callbackThrows THEN StepCatch(pushed, rowNumber) ELSE pushed

\* the step callback of processCSV on one row of the file.  callbackThrows:
\* the caller's onProgress throws when it is called for this row.
ParseStep(p, header, row, callbackThrows) ==
    IF IsDetailRow(row)
    THEN CallOnProgress(
             DetailStep([p EXCEPT !.rowCounter = @ + 1,
                                  !.headerFields = IF p.headersCaptured THEN @
                                                   ELSE ObjectKeys(header, row),
                                  !.headersCaptured = TRUE],
                        header, p.rowCounter + 1,
                        processMessyData(row, p.rowCounter + 1, p.warnings, p.t)),
             p.rowCounter + 1, callbackThrows)
    ELSE [p EXCEPT !.rowCounter = @ + 1,
                   !.headerFields = IF p.headersCaptured THEN @ ELSE ObjectKeys(header, row),
                   !.headersCaptured = TRUE]

(***************************************************************************)
(* Error tracker: the ledger of errors and corrections in localStorage.    *)
(* A key that is not set reads as the empty list, as getStoredErrors and   *)
(* getStoredCorrections return [] for it.                                  *)
(***************************************************************************)
getStoredErrors(storage) == storage.errors

storeErrors_overwriting(storage, errors) == [storage EXCEPT !.errors = errors]

storeErrors(storage, errors) ==
    [storage EXCEPT !.errors = getStoredErrors(storage) \o errors]

clearStoredErrors(storage) == [storage EXCEPT !.errors = <<>>]

getStoredCorrections(storage) == storage.corrections

\* a correction as the caller passes it; notes is UNDEFINED when not given
Correction(errorId, originalValue, correctedValue, notes) ==
    [errorId |-> errorId, originalValue |-> originalValue,
     correctedValue |-> correctedValue, notes |-> notes]

recordCorrection_resolving(storage, correction, t) ==
    [storage EXCEPT
        !.errors = SelectSeq(@, LAMBDA e : e.id # correction.errorId),
        !.corrections =
            @ \o <<[errorId |-> correction.errorId, originalValue |-> correction.originalValue,
                    correctedValue |-> correction.correctedValue, notes |-> correction.notes,
                    correctedAt |-> TimeOf(t)]>>]

recordCorrection_replacing(storage, correction, t) ==
    [storage EXCEPT !.corrections =
        SelectSeq(@, LAMBDA c : c.errorId # correction.errorId)
          \o <<[errorId |-> correction.errorId, originalValue |-> correction.originalValue,
                correctedValue |-> correction.correctedValue, notes |-> correction.notes,
                correctedAt |-> TimeOf(t)]>>]

\* recordCorrection at tick t: the storage after the call
recordCorrection(storage, correction, t) ==
    LET fullCorrection ==
            [errorId |-> correction.errorId, originalValue |-> correction.originalValue,
             correctedValue |-> correction.correctedValue, notes |-> correction.notes,
             correctedAt |-> TimeOf(t)]
    IN  [storage EXCEPT !.corrections = Append(getStoredCorrections(storage), fullCorrection)]

getCorrectionsForError(storage, errorId) ==
    SelectSeq(getStoredCorrections(storage), LAMBDA c : c.errorId = errorId)

clearStoredCorrections(storage) == [storage EXCEPT !.corrections = <<>>]

latestOf_first(errorCorrections) == errorCorrections[1]

\* errorCorrections[errorCorrections.length - 1]
latestOf(errorCorrections) == errorCorrections[Len(errorCorrections)]

\* the row of generateErrorReport for one error
ReportRow(error, corrections) ==
    LET errorCorrections == SelectSeq(corrections, LAMBDA c : c.errorId = error.id)
        hasLatest == Len(errorCorrections) > 0
        latestCorrection == latestOf(errorCorrections)
    IN  [ErrorID |-> error.id,
         Row |-> NatToString(error.row),
         Field |-> error.field,
         OriginalValue |-> error.value,
         ErrorType |-> error.errorType,
         ErrorMessage |-> error.message,
         SuggestedFix |-> OrEmpty(error.suggestedFix),
         CorrectedValue |-> IF hasLatest THEN OrEmpty(latestCorrection.correctedValue) ELSE "",
         CorrectedAt |-> IF hasLatest THEN OrEmpty(latestCorrection.correctedAt) ELSE "",
         Timestamp |-> error.timestamp]

\* the rows of the report, one per error, in the order of the errors
generateErrorReport(errors, corrections) ==
    [i \in DOMAIN errors |-> ReportRow(errors[i], corrections)]

(***************************************************************************)
(* Process controller: processEmployees.  A run is the locals of one call: *)
(* the array it was given (references into heap), the index i of the next  *)
(* record, the result under construction, the onProgress calls made, and   *)
(* the tick.  The loop awaits a timer only after a record that reached     *)
(* processedEmployees and whose onProgress call returned; a skipped record *)
(* and a record whose processing threw go on to the next record within the *)
(* same task.  The caller's onProgress is a function that may throw:       *)
(* throwsAt is the set of row numbers for which its call throws (empty for *)
(* the callback of useProcessing, which only calls setProgress).           *)
(***************************************************************************)
EmptyResult ==
    [processedEmployees |-> <<>>, skippedEmployees |-> <<>>, errors |-> <<>>,
     warnings |-> <<>>, logs |-> <<>>]

NoRow == 0

addLog_prepending(run, level, message, employeeId, row) ==
    [run EXCEPT !.result.logs =
                    <<[id |-> IdOf(run.t), timestamp |-> TimeOf(run.t), level |-> level,
                       message |-> message, employeeId |-> employeeId, row |-> row]>> \o @,
                !.t = @ + 1]

\* addLog
addLog(run, level, message, employeeId, row) ==
    [run EXCEPT !.result.logs = Append(@,
                    [id |-> IdOf(run.t), timestamp |-> TimeOf(run.t), level |-> level,
                     message |-> message, employeeId |-> employeeId, row |-> row]),
                !.t = @ + 1]

\* the locals of processEmployees after the 'Starting processing' log
StartRun(employees, headerFields, throwsAt, mounted, t0) ==
    addLog([status |-> "running", employees |-> employees, headerFields |-> headerFields,
            i |-> 0, result |-> EmptyResult, progress |-> <<>>, awaiting |-> FALSE,
            throwsAt |-> throwsAt, mounted |-> mounted, t |-> t0],
           "INFO",
           "Starting processing of " \o NatToString(Len(employees)) \o " employees",
           UNDEFINED, NoRow)

\* the dates of the rows of Spec all lie within their month, where every
\* engine's Date parser agrees
SpecLenientDates == FALSE

CatchBlock_silent(run, employee, rowIndex) == run

\* the catch block of the loop body
CatchBlock(run, employee, rowIndex) ==
    LET errorObj ==
            [id |-> IdOf(run.t),
             rowId |-> IF Truthy(Get(employee, "employee_id")) THEN employee["employee_id"]
                       ELSE "row_" \o NatToString(rowIndex),
             row |-> rowIndex, field |-> "general", columnIndex |-> NoColumn, value |-> "",
             errorType |-> "PARSE_ERROR",
             message |-> "Failed to process employee: TypeError",
             suggestedFix |-> UNDEFINED, timestamp |-> TimeOf(run.t)]
        withError == [run EXCEPT !.result.errors = Append(@, errorObj), !.t = @ + 1]
    IN  addLog(withError, "ERROR",
               "Failed to process employee " \o Interp(Get(employee, "employee_id")),
               Get(employee, "employee_id"), rowIndex)

SkipsRecord_onErrors(employee, validationErrors) ==
    ~isPayrollReady(employee) \/ Len(validationErrors) > 0

\* the gate of the loop body: if (!isPayrollReady(employee)) ... continue
SkipsRecord(employee, validationErrors) == ~isPayrollReady(employee)

\* "Employee <id> (<first> <last>): ", the head of the record's log lines
Who(employee) ==
    "Employee " \o Interp(Get(employee, "employee_id")) \o " ("
      \o Interp(Get(employee, "first_name")) \o " "
      \o Interp(Get(employee, "last_name")) \o "): "

\* the loop body up to the gate: the errors are pushed and, if there are
\* any, the 'Validation failed' line is logged
LogValidation(run, employee, rowIndex, validationErrors) ==
    IF Len(validationErrors) > 0
    THEN addLog([run EXCEPT !.result.errors = @ \o validationErrors,
                            !.t = @ + Len(validationErrors),
                            !.i = rowIndex,
                            !.awaiting = FALSE],
                "ERROR",
                "Row " \o NatToString(rowIndex) \o ", Column "
                  \o Join([k \in DOMAIN validationErrors |-> validationErrors[k].field], ", ")
                  \o ": Validation failed - " \o NatToString(Len(validationErrors))
                  \o " issue(s) detected",
                Get(employee, "employee_id"), rowIndex)
    ELSE [run EXCEPT !.i = rowIndex, !.awaiting = FALSE]

\* the branch of the gate that skips the record
SkipRecord(logged, ref, employee, rowIndex, reason) ==
    addLog([logged EXCEPT !.result.skippedEmployees =
                              Append(@, [employee |-> ref, reason |-> reason])],
           "WARNING", Who(employee) \o "Compliance check failed - " \o reason,
           Get(employee, "employee_id"), rowIndex)

\* the push onto processedEmployees and the log line after it
PushProcessed(logged, ref, employee, rowIndex, validationErrors, adp, qb) ==
    addLog([logged EXCEPT !.result.processedEmployees =
                Append(@, [employee |-> ref, adpRecord |-> adp.record,
                           quickBooksRecord |-> qb.record])],
           IF Len(validationErrors) = 0 THEN "SUCCESS" ELSE "INFO",
           Who(employee)
             \o (IF Len(validationErrors) = 0 THEN "Validated and ready for export"
                 ELSE "Transformed with validation errors - export disabled until corrected"),
           Get(employee, "employee_id"), rowIndex)

\* the call of onProgress and the await after it
ReportProgress(called, employee, rowIndex) ==
    IF rowIndex \in called.throwsAt THEN CatchBlock(called, employee, rowIndex)
    ELSE [called EXCEPT !.awaiting = TRUE]

\* the loop body from the two transformations on
TransformRecord(logged, ref, employee, rowIndex, validationErrors, adp, qb) ==
    IF adp.threw \/ qb.threw THEN CatchBlock(logged, employee, rowIndex)
    ELSE ReportProgress(
             [PushProcessed(logged, ref, employee, rowIndex, validationErrors, adp, qb)
                EXCEPT !.progress =
                   Append(@, [current |-> rowIndex, total |-> Len(logged.employees),
                              isComplete |-> (rowIndex = Len(logged.employees))])],
             employee, rowIndex)

\* the loop body from the gate on
GateRecord(logged, storage, ref, employee, rowIndex, validationErrors) ==
    IF SkipsRecord(employee, validationErrors)
    THEN SkipRecord(logged, ref, employee, rowIndex,
                    "I-9 status: " \o Interp(Get(employee, "i9_status"))
                      \o ", E-Verify status: " \o Interp(Get(employee, "e_verify_status")))
    ELSE TransformRecord(logged, ref, employee, rowIndex, validationErrors,
                         transformToADP(storage, employee),
                         transformToQuickBooks(storage, employee))

\* the loop body for one record, given the errors of its validation
ValidatedRecord(run, storage, ref, employee, rowIndex, validationErrors) ==
    GateRecord(LogValidation(run, employee, rowIndex, validationErrors),
               storage, ref, employee, rowIndex, validationErrors)

\* one pass of the loop body, for the record at index run.i
ProcessOne(run, storage, hp) ==
    ValidatedRecord(run, storage, run.employees[run.i + 1], hp[run.employees[run.i + 1]],
                    run.i + 1,
                    validateEmployeeRecord(hp[run.employees[run.i + 1]], run.i,
                                           run.headerFields, SpecLenientDates, run.t))

\* the statements after the loop, but for storeErrors: the closing log
FinishRun(run) ==
    [addLog(run, "INFO",
            "Processing complete. " \o NatToString(Len(run.result.processedEmployees))
              \o " employees processed, " \o NatToString(Len(run.result.skippedEmployees))
              \o " employees skipped",
            UNDEFINED, NoRow)
     EXCEPT !.status = "done", !.awaiting = FALSE]

\* processEmployees from the point where the run stands to its next await,
\* or to its return
RECURSIVE RunToAwait(_, _, _)
RunToAwait(run, storage, hp) ==
    IF run.i >= Len(run.employees) THEN FinishRun(run)
    ELSE LET next == ProcessOne(run, storage, hp)
         IN  IF next.awaiting THEN next ELSE RunToAwait(next, storage, hp)

(***************************************************************************)
(* Inputs: the rows and files that are uploaded, and the mapping files that*)
(* are imported.                                                           *)
(***************************************************************************)
\* the object with the given <<key, value>> pairs
Row(pairs) ==
    [k \in {pairs[i][1] : i \in DOMAIN pairs} |->
        pairs[CHOOSE i \in DOMAIN pairs : pairs[i][1] = k][2]]

\* the normalised header line of the files
BaseHeader == <<"record_type", "record_sequence", "company_id">> \o REQUIRED_EMPLOYEE_FIELDS

\* a detail row that passes every rule of the validator and the gate
BaseRow ==
    Row(<< <<"record_type", "DET">>, <<"record_sequence", "1">>, <<"company_id", "C1">>,
           <<"employee_id", "E1">>, <<"first_name", "Ann">>, <<"last_name", "Lee">>,
           <<"dob", "1990-05-15">>, <<"ssn", "123-45-6789">>,
           <<"home_street", "1 Main St">>, <<"home_city", "Aiken">>,
           <<"home_state", "SC">>, <<"home_zip", "29801">>,
           <<"hire_date", "2025-11-01">>, <<"job_title", "Dev">>,
           <<"flsa_status", "Exempt">>, <<"annual_salary", "52000">>,
           <<"pay_frequency", "Weekly">>, <<"fed_status", "Single">>,
           <<"fed_allowances", "1">>, <<"fed_extra_wh_per_paycheck", "0">>,
           <<"state_code", "SC">>, <<"state_extra_wh_per_paycheck", "0">>,
           <<"i9_status", "Completed">>, <<"e_verify_status", "Authorized">>,
           <<"dd1_routing_number", "123456789">>, <<"dd1_account_number", "1111">>,
           <<"dd1_account_type", "Checking">>, <<"dd1_split_type", "Percent">>,
           <<"dd1_split_value", "100">> >>)

rOk == BaseRow
\* valid, but the I-9 is not completed
rPending == Put(Put(BaseRow, "employee_id", "E2"), "i9_status", "Pending_Section_2")
\* passes the gate with a malformed SSN, the whole name in first_name and
\* no last_name
rBad == Put(Put(Put(Put(BaseRow, "employee_id", "E3"), "ssn", "123456789"),
                "first_name", "Ann Lee"),
            "last_name", "")
\* fails the gate (no E-Verify status) and has a malformed ZIP code
rSkipBad == Put(Put(Put(BaseRow, "employee_id", "E4"), "e_verify_status", ""),
                "home_zip", "2980")

\* the files a user uploads: the data rows under BaseHeader
AllFiles == << <<rBad, rPending>>, <<rOk, rSkipBad>>, <<rSkipBad, rOk, rBad>> >>

FileIds == {f \in DOMAIN AllFiles : Len(AllFiles[f]) <= MaxRows}

Providers == {"ADP", "QuickBooks"}

DefaultMapping(provider) == IF provider = "ADP" THEN adpMapping ELSE quickBooksMapping

\* the JSON files a user imports for a provider: an exported default; the
\* default without its "transformations" property; the default with the
\* transformation of its first target replaced by a string.  Each has a
\* fieldMappings array, which the mapping editor needs to display it.
ImportFiles(provider) ==
    LET exported == JsonOf(DefaultMapping(provider))
        target == exported.fieldMappings[1].targetField
    IN  << exported,
           [exported EXCEPT !.hasTransformations = FALSE],
           [exported EXCEPT !.transformations =
               <<[key |-> target, callable |-> FALSE, truthy |-> TRUE, name |-> ""]>>] >>

(***************************************************************************)
(* The state after the page has loaded.                                    *)
(***************************************************************************)
InitStorage ==
    [errors |-> <<>>, corrections |-> <<>>,
     mapping |-> [p \in Providers |-> [stored |-> FALSE, value |-> DefaultMapping(p)]]]

InitApp ==
    [employees |-> <<>>, warnings |-> <<>>, headerFields |-> <<>>, activeTab |-> "upload",
     crashed |-> FALSE, mappingOps |-> 0]

\* no upload in flight
InitParse ==
    [status |-> "idle", file |-> 0, fromDashboard |-> FALSE, live |-> FALSE, uploads |-> 0,
     returned |-> ParserStart(0)]

\* no call of processEmployees in flight
IdleRun ==
    [status |-> "idle", employees |-> <<>>, headerFields |-> <<>>, i |-> 0,
     result |-> EmptyResult, progress |-> <<>>, awaiting |-> FALSE, throwsAt |-> {},
     mounted |-> FALSE, t |-> 0]

\* runs counts the calls of processEmployees, budget bounds them
InitProc == [run |-> IdleRun, runs |-> 0, budget |-> MaxRuns]

NoError ==
    [id |-> "", rowId |-> "", row |-> 0, field |-> "", columnIndex |-> NoColumn,
     value |-> "", errorType |-> "", message |-> "", suggestedFix |-> "", timestamp |-> ""]

\* ErrorCorrection with no error selected; the modal's state on its mount
NoModal ==
    [open |-> FALSE, error |-> NoError, currentStep |-> "errors", correctedValue |-> "",
     selectedOption |-> "", validationError |-> "",
     showNameSplit |-> FALSE, firstName |-> "", lastName |-> "",
     showAddressSplit |-> FALSE, addressType |-> "",
     street |-> "", city |-> "", state |-> "", zip |-> ""]

\* a freshly mounted dashboard.  source is the array the call that returned
\* result was given; timers counts the pending timers of confirmed corrections.
NoDash ==
    [hasResult |-> FALSE, result |-> EmptyResult, source |-> <<>>, isProcessing |-> FALSE,
     modal |-> NoModal, timers |-> 0]

InitFn == [op |-> "", arg |-> <<>>, out |-> <<>>, calls |-> 0]

Init ==
    /\ ls = InitStorage
    /\ heap = <<>>
    /\ app = InitApp
    /\ parse = InitParse
    /\ proc = InitProc
    /\ dash = NoDash
    /\ tick = 1
    /\ fn = InitFn

\* FIELD_OPTIONS of the correction modal
FIELD_OPTIONS ==
    [f \in {"flsa_status", "pay_frequency", "fed_status", "i9_status", "e_verify_status",
            "dd1_account_type", "dd2_account_type", "dd1_split_type", "dd2_split_type",
            "employment_type", "employee_status", "pay_rate_type", "gender", "ethnicity",
            "disability_status", "veteran_status", "union_employee"} |->
        CASE f = "flsa_status" -> <<"Exempt", "Non-Exempt">>
          [] f = "pay_frequency" -> <<"Weekly", "Bi-weekly", "Semi-monthly", "Monthly">>
          [] f = "fed_status" ->
                <<"Single", "Married", "Married Filing Separately", "Head of Household">>
          [] f = "i9_status" -> <<"Completed", "Pending_Section_2", "Not_Started">>
          [] f = "e_verify_status" -> <<"Authorized", "Not_Started", "Pending">>
          [] f \in {"dd1_account_type", "dd2_account_type"} -> <<"Checking", "Savings">>
          [] f \in {"dd1_split_type", "dd2_split_type"} -> <<"Percent", "Flat_Amount">>
          [] f = "employment_type" ->
                <<"Full-time", "Part-time", "Contractor", "Seasonal", "Temporary">>
          [] f = "employee_status" ->
                <<"Active", "Inactive", "Leave of Absence", "Terminated">>
          [] f = "pay_rate_type" -> <<"Salary", "Hourly">>
          [] f = "gender" -> <<"Male", "Female", "Other", "Prefer not to say">>
          [] f = "ethnicity" ->
                <<"Hispanic or Latino", "Not Hispanic or Latino", "Prefer not to say">>
          [] f \in {"disability_status", "veteran_status"} -> <<"Yes", "No", "Prefer not to say">>
          [] OTHER -> <<"Yes", "No">>]


(***************************************************************************)
(* Upload.  parseCSVFile reads the file with a FileReader, so the handler  *)
(* that starts an upload and the one that receives the parsed rows are two *)
(* tasks; the parse itself (Papa.parse of a string) runs within the second.*)
(* One upload is in flight at a time.                                      *)
(***************************************************************************)
\* processCSV's complete callback: the header fields that are returned
ParseComplete(p, header) ==
    [p EXCEPT !.headerFields = IF p.headerFields = <<>> THEN header ELSE @]

\* processCSV on a whole file whose progress callback returns normally
RECURSIVE ParseRows(_, _, _)
ParseRows(p, header, rows) ==
    IF rows = <<>> THEN ParseComplete(p, header)
    ELSE ParseRows(ParseStep(p, header, Head(rows), FALSE), header, Tail(rows))

processCSV(header, rows, t0) == ParseRows(ParserStart(t0), header, rows)

\* the dashboard's state when its tree is torn down or its result is reset
Unmounted(run) == [run EXCEPT !.mounted = FALSE]

\* FileUpload.handleFile / the dashboard's corrected-file input, up to the
\* await of uploadFile
UploadStart(f) ==
    /\ ~app.crashed
    /\ parse.status = "idle"
    /\ parse.uploads < MaxUploads
    /\ \/ app.activeTab = "upload"
       \/ app.activeTab = "process" /\ dash.hasResult
    /\ parse' = [parse EXCEPT !.status = "reading", !.file = f,
                              !.fromDashboard = (app.activeTab = "process"),
                              !.live = (app.activeTab = "process"),
                              !.uploads = @ + 1]
    /\ UNCHANGED <<ls, heap, app, proc, dash, tick, fn>>

\* the modal's effect on [isOpen, error, employee], for an open modal
ModalOnOpen(modal, error, employee) ==
    LET nameSplit ==
            /\ error.field = "last_name"
            /\ (~Truthy(Get(employee, "last_name")) \/ Trim(employee["last_name"]) = "")
            /\ Truthy(Get(employee, "first_name"))
            /\ Len(SplitWords(Trim(employee["first_name"]), "")) > 1
        addressFields == {"home_street", "home_city", "home_state", "home_zip",
                          "work_street", "work_city", "work_state", "work_zip"}
        addressSplit == error.field \in addressFields
        addrType == IF SubSeq(error.field, 1, 5) = "home_" THEN "home" ELSE "work"
        currentValue == OrEmpty(Get(employee, error.field))
    IN  [modal EXCEPT
            !.currentStep = "errors",
            !.correctedValue = "",
            !.validationError = "",
            !.selectedOption = IF error.field \in DOMAIN FIELD_OPTIONS
                                  /\ currentValue \in Range(FIELD_OPTIONS[error.field])
                               THEN currentValue ELSE "",
            !.showNameSplit = nameSplit,
            !.firstName = IF nameSplit THEN OrEmpty(Get(employee, "first_name")) ELSE @,
            !.lastName = IF nameSplit THEN OrEmpty(Get(employee, "last_name")) ELSE @,
            !.showAddressSplit = addressSplit,
            !.addressType = IF addressSplit THEN addrType ELSE @,
            !.street = IF addressSplit THEN OrEmpty(Get(employee, addrType \o "_street")) ELSE @,
            !.city = IF addressSplit THEN OrEmpty(Get(employee, addrType \o "_city")) ELSE @,
            !.state = IF addressSplit THEN OrEmpty(Get(employee, addrType \o "_state")) ELSE @,
            !.zip = IF addressSplit THEN OrEmpty(Get(employee, addrType \o "_zip")) ELSE @]

\* the continuation of the caller of uploadFile when processCSV has returned
\* p: the reset of the dashboard that began the upload, if it is still
\* mounted, and App.handleUploadComplete
UploadReturns(p) ==
    /\ LET n == Len(p.processedRows)
           refs == [k \in 1..n |-> Len(heap) + k]
           reset == parse.fromDashboard /\ parse.live
           stays == app.activeTab = "process" /\ ~reset
           row == dash.modal.error.row
       IN  /\ parse' = [parse EXCEPT !.status = "idle", !.live = FALSE, !.returned = p]
           /\ tick' = p.t
           /\ IF app.crashed
              THEN UNCHANGED <<heap, app, dash, proc>>
              ELSE /\ heap' = heap \o p.processedRows
                   /\ IF stays /\ dash.modal.open /\ row > n
                      \* the open modal is rendered with an undefined employee
                      THEN /\ app' = [app EXCEPT !.employees = refs, !.warnings = p.warnings,
                                                 !.headerFields = p.headerFields,
                                                 !.activeTab = "process", !.crashed = TRUE]
                           /\ dash' = NoDash
                           /\ proc' = [proc EXCEPT !.run = Unmounted(@)]
                      ELSE /\ app' = [app EXCEPT !.employees = refs, !.warnings = p.warnings,
                                                 !.headerFields = p.headerFields,
                                                 !.activeTab = "process"]
                           /\ dash' = IF ~stays THEN [NoDash EXCEPT !.isProcessing =
                                                         reset /\ dash.isProcessing]
                                      ELSE IF dash.modal.open
                                      THEN [dash EXCEPT !.modal =
                                               ModalOnOpen(@, @.error, p.processedRows[row])]
                                      ELSE dash
                           /\ proc' = IF app.activeTab = "process" THEN proc
                                      ELSE [proc EXCEPT !.run = Unmounted(@)]
    /\ UNCHANGED <<ls, fn>>

\* the load event of the FileReader: processCSV, then the continuation
UploadComplete ==
    /\ parse.status = "reading"
    /\ UploadReturns(processCSV(BaseHeader, AllFiles[parse.file], tick))

(***************************************************************************)
(* Processing.  handleProcess calls useProcessing.process, which calls     *)
(* processEmployees; the call runs within the click's task up to its first *)
(* await, and each timer callback resumes it up to the next one.  When the *)
(* call returns, process publishes the result with setResult, which has an *)
(* effect only while the dashboard that started the run is mounted.  One   *)
(* call of processEmployees is in flight at a time.                        *)
(***************************************************************************)
\* the effects of a segment that took the run to `run`; d is the dashboard
\* as the handler leaves it
Advance(run, runs, d) ==
    /\ proc' = [proc EXCEPT !.run = run, !.runs = runs]
    /\ tick' = run.t
    /\ ls' = IF run.status = "done" /\ Len(run.result.errors) > 0
             THEN storeErrors(ls, run.result.errors)
             ELSE ls
    /\ dash' = IF run.status = "done" /\ run.mounted
               THEN [NoDash EXCEPT !.hasResult = TRUE, !.result = run.result,
                                   !.source = run.employees]
               ELSE d

\* ProcessingDashboard.handleProcess
StartProcess ==
    /\ ~app.crashed
    /\ app.activeTab = "process"
    /\ ~dash.isProcessing
    /\ Len(app.employees) > 0
    /\ proc.run.status # "running"
    /\ proc.runs < proc.budget
    /\ Advance(RunToAwait(StartRun(app.employees, app.headerFields, {}, TRUE, tick),
                          ls, heap),
               proc.runs + 1,
               [NoDash EXCEPT !.isProcessing = TRUE])
    /\ UNCHANGED <<heap, app, parse, fn>>

\* the timer of `await new Promise(resolve => setTimeout(resolve, 50))`
ResumeProcess ==
    /\ proc.run.status = "running"
    /\ proc.run.awaiting
    /\ Advance(RunToAwait([proc.run EXCEPT !.t = tick, !.awaiting = FALSE], ls, heap),
               proc.runs, dash)
    /\ UNCHANGED <<heap, app, parse, fn>>

\* the tab buttons of App: the dashboard (with its hook state, the error
\* table and the modal) exists only under the 'process' tab
SwitchTab(tab) ==
    /\ ~app.crashed
    /\ tab # app.activeTab
    /\ app' = [app EXCEPT !.activeTab = tab]
    /\ dash' = NoDash
    /\ proc' = [proc EXCEPT !.run = Unmounted(@)]
    /\ parse' = [parse EXCEPT !.live = FALSE]
    /\ UNCHANGED <<ls, heap, tick, fn>>

(***************************************************************************)
(* Mapping editor.                                                         *)
(***************************************************************************)
\* saveMapping: the value of the key is the JSON text of the mapping
saveMapping(storage, provider, mapping) ==
    [storage EXCEPT !.mapping[provider] = [stored |-> TRUE, value |-> JsonOf(mapping)]]

\* resetMapping
resetMapping(storage, provider) == saveMapping(storage, provider, DefaultMapping(provider))

\* importMapping of a text that parses as JSON
importMapping(storage, provider, parsed) == saveMapping(storage, provider, parsed)

MappingAction(storage) ==
    /\ ~app.crashed
    /\ app.activeTab = "mappings"
    /\ app.mappingOps < MaxMappingOps
    /\ ls' = storage
    /\ app' = [app EXCEPT !.mappingOps = @ + 1]
    /\ UNCHANGED <<heap, parse, proc, dash, tick, fn>>

\* MappingEditor.handleSave of the mapping the editor shows
SaveMapping(provider) ==
    MappingAction(saveMapping(ls, provider, getProviderMapping(ls, provider)))

\* MappingEditor.handleReset, confirmed
ResetMapping(provider) == MappingAction(resetMapping(ls, provider))

\* MappingEditor.handleImport of the k-th import file
ImportMapping(provider, k) ==
    MappingAction(importMapping(ls, provider, ImportFiles(provider)[k]))

(***************************************************************************)
(* Correction workflow: ErrorCorrection and ErrorCorrectionModal.  The     *)
(* modal's employee is getErrorRow(selectedError), employees[error.row-1]  *)
(* of the array App holds at the time.  The notes field is left empty.     *)
(***************************************************************************)
\* getErrorRow: defined only for a row within the array
HasErrorRow(error) == error.row \in DOMAIN app.employees

getErrorRow(error) == app.employees[error.row]

\* an uncaught TypeError while rendering: React unmounts the whole tree
Crash ==
    /\ app' = [app EXCEPT !.crashed = TRUE]
    /\ dash' = NoDash
    /\ proc' = [proc EXCEPT !.run = Unmounted(@)]
    /\ parse' = [parse EXCEPT !.live = FALSE]

\* ErrorCorrection.handleOpenModal on the k-th row of the error table
OpenModal(k) ==
    /\ ~app.crashed
    /\ app.activeTab = "process"
    /\ dash.hasResult
    /\ ~dash.modal.open
    /\ k \in DOMAIN dash.result.errors
    /\ LET error == dash.result.errors[k]
       IN  IF HasErrorRow(error)
           THEN /\ dash' = [dash EXCEPT !.modal =
                               ModalOnOpen([NoModal EXCEPT !.open = TRUE, !.error = error],
                                           error, heap[getErrorRow(error)])]
                /\ UNCHANGED <<app, proc, parse>>
           ELSE Crash
    /\ UNCHANGED <<ls, heap, tick, fn>>

\* what the user may type or select at the 'errors' step
EditInputs(modal) ==
    IF modal.showNameSplit
    THEN {[modal EXCEPT !.firstName = v[1], !.lastName = v[2]] :
             v \in {<<"Ann", "Lee">>, <<"Ann Lee", "Lee">>}}
    ELSE IF modal.showAddressSplit
    THEN {[modal EXCEPT !.zip = v] : v \in {"29801", "2980"}}
    ELSE IF modal.error.field \in DOMAIN FIELD_OPTIONS
    THEN {[modal EXCEPT !.selectedOption = FIELD_OPTIONS[modal.error.field][k]] : k \in 1..2}
    ELSE {[modal EXCEPT !.correctedValue = v] : v \in {"987-65-4321", "abc"}}

\* the onChange handlers of the modal's inputs
ModalEdit ==
    /\ dash.modal.open
    /\ dash.modal.currentStep = "errors"
    /\ \E m \in EditInputs(dash.modal) : dash' = [dash EXCEPT !.modal = m]
    /\ UNCHANGED <<ls, heap, app, parse, proc, tick, fn>>

\* street.match(/\d{5}/)
HasFiveDigits(s) == \E i \in 1..(Len(s) - 4) : AllIn(s, i, i + 4, Digits)

Includes(s, c) == \E i \in 1..Len(s) : Char(s, i) = c

\* /^\d{3}-\d{2}-\d{4}$/
MatchesSsnPattern(v) ==
    /\ Len(v) = 11
    /\ AllIn(v, 1, 3, Digits) /\ Char(v, 4) = "-"
    /\ AllIn(v, 5, 6, Digits) /\ Char(v, 7) = "-"
    /\ AllIn(v, 8, 11, Digits)

\* handleNext at the 'errors' step: the message it sets, "" when it passes
ErrorsStepMessage(m) ==
    LET field == m.error.field
        value == Trim(m.correctedValue)
    IN  IF m.showNameSplit
        THEN IF Trim(m.firstName) = "" THEN "First name is required"
             ELSE IF Trim(m.lastName) = "" THEN "Last name is required"
             ELSE IF Len(SplitWords(Trim(m.firstName), "")) > 1
             THEN "First name should not contain spaces. Please enter only the first name."
             ELSE ""
        ELSE IF m.showAddressSplit
        THEN IF Trim(m.street) = "" THEN "Street address is required"
             ELSE IF Trim(m.city) = "" THEN "City is required"
             ELSE IF Trim(m.state) = "" THEN "State is required"
             ELSE IF Len(Trim(m.state)) # 2
             THEN "State must be exactly 2 characters (e.g., SC, GA, NC)"
             ELSE IF Trim(m.zip) = "" THEN "ZIP code is required"
             ELSE IF ~isValidZip(Trim(m.zip))
             THEN "ZIP code must be in format 12345 or 12345-6789"
             ELSE IF Includes(m.street, ",") /\ HasFiveDigits(m.street)
             THEN "Street address appears to contain combined address data. Please enter only the street address."
             ELSE ""
        ELSE IF field \in DOMAIN FIELD_OPTIONS
        THEN IF m.selectedOption = "" THEN "Please select a valid option" ELSE ""
        ELSE IF value = "" THEN "Please enter a corrected value"
        ELSE IF field \in {"home_state", "work_state"} /\ Len(value) # 2
        THEN "State must be exactly 2 characters (e.g., SC, GA, NC)"
        ELSE IF field \in {"home_zip", "work_zip"} /\ ~isValidZip(value)
        THEN "ZIP code must be in format 12345 or 12345-6789"
        ELSE IF field = "ssn" /\ ~MatchesSsnPattern(value)
        THEN "SSN must be in format XXX-XX-XXXX"
        ELSE IF field \in {"dob", "hire_date", "original_hire_date", "rehire_date",
                           "termination_date"} /\ ~MatchesDatePattern(value)
        THEN "Date must be in format YYYY-MM-DD (e.g., 2025-11-01)"
        ELSE ""

\* the record after the writes of the 'confirm' step
ConfirmedRecord(m, employee) ==
    IF m.showNameSplit
    THEN Put(Put(employee, "first_name", m.firstName), "last_name", m.lastName)
    ELSE IF m.showAddressSplit /\ m.addressType # ""
    THEN Put(Put(Put(Put(employee, m.addressType \o "_street", m.street),
                     m.addressType \o "_city", m.city),
                 m.addressType \o "_state", m.state),
             m.addressType \o "_zip", m.zip)
    ELSE Put(employee, m.error.field,
             IF m.error.field \in DOMAIN FIELD_OPTIONS THEN m.selectedOption
             ELSE m.correctedValue)

\* the correction the 'confirm' step passes to recordCorrection
ConfirmedCorrection(m) ==
    LET part == SubSeq(m.error.field, 6, Len(m.error.field))
    IN  IF m.showNameSplit
        THEN Correction(m.error.id, OrEmpty(m.error.value), m.lastName,
                        "Also corrected first_name to: " \o m.firstName)
        ELSE IF m.showAddressSplit /\ m.addressType # ""
        THEN Correction(m.error.id, OrEmpty(m.error.value),
                        IF part = "street" THEN m.street
                        ELSE IF part = "city" THEN m.city
                        ELSE IF part = "state" THEN m.state
                        ELSE m.zip,
                        "Also corrected all " \o m.addressType \o " address fields")
        ELSE Correction(m.error.id, m.error.value,
                        IF m.error.field \in DOMAIN FIELD_OPTIONS THEN m.selectedOption
                        ELSE m.correctedValue,
                        UNDEFINED)

\* ErrorCorrectionModal.handleNext
ModalNext ==
    /\ dash.modal.open
    /\ LET m == dash.modal
           message == ErrorsStepMessage(m)
           ref == getErrorRow(m.error)
       IN  CASE m.currentStep = "errors" ->
                  /\ dash' = [dash EXCEPT !.modal.validationError = message,
                                          !.modal.currentStep =
                                              IF message = "" THEN "review" ELSE "errors"]
                  /\ UNCHANGED <<ls, heap, tick>>
             [] m.currentStep = "review" ->
                  /\ dash' = [dash EXCEPT !.modal.currentStep = "confirm"]
                  /\ UNCHANGED <<ls, heap, tick>>
             [] m.currentStep = "confirm" ->
                  /\ Len(ls.corrections) < MaxCorrections
                  /\ heap' = [heap EXCEPT ![ref] = ConfirmedRecord(m, heap[ref])]
                  /\ ls' = recordCorrection(ls, ConfirmedCorrection(m), tick)
                  /\ tick' = tick + 1
                  /\ dash' = [dash EXCEPT !.modal.currentStep = "success",
                                          !.timers = @ + 1]
             [] OTHER -> FALSE
    /\ UNCHANGED <<app, parse, proc, fn>>

\* ErrorCorrectionModal.handleBack
ModalBack ==
    /\ dash.modal.open
    /\ dash.modal.currentStep \in {"review", "confirm"}
    /\ dash' = [dash EXCEPT !.modal.currentStep =
                   IF @ = "review" THEN "errors" ELSE "review"]
    /\ UNCHANGED <<ls, heap, app, parse, proc, tick, fn>>

\* ErrorCorrection.handleCloseModal: the close button, the overlay, Cancel
ModalClose ==
    /\ dash.modal.open
    /\ dash' = [dash EXCEPT !.modal = NoModal]
    /\ UNCHANGED <<ls, heap, app, parse, proc, tick, fn>>

\* the timer set by a confirmed correction: onCorrectionApplied and onClose
ModalTimer ==
    /\ dash.timers > 0
    /\ dash' = [dash EXCEPT !.modal = NoModal, !.timers = @ - 1]
    /\ UNCHANGED <<ls, heap, app, parse, proc, tick, fn>>

(***************************************************************************)
(* The application.                                                        *)
(***************************************************************************)
Next ==
    \/ \E f \in FileIds : UploadStart(f)
    \/ UploadComplete
    \/ StartProcess
    \/ ResumeProcess
    \/ \E tab \in {"upload", "process", "mappings"} : SwitchTab(tab)
    \/ \E provider \in Providers : SaveMapping(provider)
    \/ \E provider \in Providers : ResetMapping(provider)
    \/ \E provider \in Providers, k \in 1..3 : ImportMapping(provider, k)
    \/ \E k \in 1..Len(dash.result.errors) : OpenModal(k)
    \/ ModalEdit
    \/ ModalNext
    \/ ModalBack
    \/ ModalClose
    \/ ModalTimer

Spec == Init /\ [][Next]_vars

(***************************************************************************)
(* processEmployees on its own: every batch of up to MaxRows records, under*)
(* the default mappings or one imported mapping, processed up to MaxRuns   *)
(* times; clearStoredErrors may be called between the segments.            *)
(***************************************************************************)
RowKinds == {rOk, rPending, rBad, rSkipBad}

Batches ==
    UNION {[1..n -> {extractEmployeeData(r) : r \in RowKinds}] : n \in 1..MaxRows}

MappingConfigs ==
    {InitStorage}
      \cup {importMapping(InitStorage, provider, ImportFiles(provider)[k]) :
               provider \in Providers, k \in 1..3}

InitProcess ==
    /\ ls \in MappingConfigs
    /\ heap \in Batches
    /\ app = [InitApp EXCEPT !.employees = [k \in DOMAIN heap |-> k],
                             !.headerFields = BaseHeader,
                             !.activeTab = "process"]
    /\ parse = InitParse
    /\ proc = [InitProc EXCEPT !.budget = MaxBatchRuns]
    /\ dash = NoDash
    /\ tick = 1
    /\ fn = InitFn

\* a call of clearStoredErrors
ClearStoredErrors ==
    /\ ls' = clearStoredErrors(ls)
    /\ UNCHANGED <<heap, app, parse, proc, dash, tick, fn>>

\* a call of processEmployees(employees, { headerFields, onProgress })
CallProcessEmployees ==
    /\ proc.run.status # "running"
    /\ proc.runs < proc.budget
    /\ \E throwsAt \in SUBSET DOMAIN app.employees :
          Advance(RunToAwait(StartRun(app.employees, app.headerFields, throwsAt, FALSE, tick),
                             ls, heap),
                  proc.runs + 1, dash)
    /\ UNCHANGED <<heap, app, parse, fn>>

NextProcess == CallProcessEmployees \/ ResumeProcess \/ ClearStoredErrors

SpecProcess == InitProcess /\ [][NextProcess]_vars

(***************************************************************************)
(* Properties of processEmployees.                                         *)
(***************************************************************************)
\* an error without its id and its creation time
Content(e) ==
    [rowId |-> e.rowId, row |-> e.row, field |-> e.field, columnIndex |-> e.columnIndex,
     value |-> e.value, errorType |-> e.errorType, message |-> e.message,
     suggestedFix |-> e.suggestedFix]

Contains(s, sub) ==
    \E i \in 1..(Len(s) - Len(sub) + 1) : SubSeq(s, i, i + Len(sub) - 1) = sub

IsPrefix(a, b) == Len(a) <= Len(b) /\ SubSeq(b, 1, Len(a)) = a

\* the record at position k of the run's batch
RunRecord(k) == heap[proc.run.employees[k]]

\* the transformation of the record at position k throws
TransformThrowsAt(k) ==
    /\ isPayrollReady(RunRecord(k))
    /\ \/ transformToADP(ls, RunRecord(k)).threw
       \/ transformToQuickBooks(ls, RunRecord(k)).threw

\* the processing of the record at position k throws: its transformation
\* does, or the onProgress call that reports it
ThrowsAt(k) ==
    \/ TransformThrowsAt(k)
    \/ isPayrollReady(RunRecord(k)) /\ k \in proc.run.throwsAt

SkippedAt(k) ==
    {j \in DOMAIN proc.run.result.skippedEmployees :
        proc.run.result.skippedEmployees[j].employee = proc.run.employees[k]}

ProcessedAt(k) ==
    {j \in DOMAIN proc.run.result.processedEmployees :
        proc.run.result.processedEmployees[j].employee = proc.run.employees[k]}

GeneralErrorsAt(k) ==
    {j \in DOMAIN proc.run.result.errors :
        /\ proc.run.result.errors[j].errorType = "PARSE_ERROR"
        /\ proc.run.result.errors[j].field = "general"
        /\ proc.run.result.errors[j].row = k}

\* the validation errors that the result holds for the record at position k
ValidationErrorsAt(k) ==
    SelectSeq(proc.run.result.errors,
              LAMBDA e : e.row = k /\ e.errorType # "PARSE_ERROR")

\* C2: for every record the loop has handled, the errors of its validation
\* are in result.errors, and, unless its processing threw, the record is in
\* skippedEmployees (with a reason naming its i9_status and e_verify_status)
\* exactly when isPayrollReady is false and is in processedEmployees with
\* its two transformed records exactly when isPayrollReady is true, whether
\* or not validation found errors.
C2_GateIndependentOfValidation ==
    \A k \in 1..proc.run.i :
        LET employee == RunRecord(k)
            found == validateEmployeeRecord(employee, k - 1, proc.run.headerFields,
                                            SpecLenientDates, 0)
            kept == ValidationErrorsAt(k)
        IN  /\ [j \in DOMAIN kept |-> Content(kept[j])]
                 = [j \in DOMAIN found |-> Content(found[j])]
            /\ ~ThrowsAt(k) =>
                 /\ (SkippedAt(k) # {}) <=> ~isPayrollReady(employee)
                 /\ (ProcessedAt(k) # {}) <=> isPayrollReady(employee)
                 /\ \A j \in SkippedAt(k) :
                      LET reason == proc.run.result.skippedEmployees[j].reason
                      IN  /\ Contains(reason, Interp(Get(employee, "i9_status")))
                          /\ Contains(reason, Interp(Get(employee, "e_verify_status")))
                 /\ \A j \in ProcessedAt(k) :
                      LET entry == proc.run.result.processedEmployees[j]
                      IN  /\ entry.adpRecord = transformToADP(ls, employee).record
                          /\ entry.quickBooksRecord
                               = transformToQuickBooks(ls, employee).record

\* a finished run that processed a record with validation errors and
\* skipped another record with validation errors
C2_Witness ==
    /\ proc.run.status = "done"
    /\ \E k \in 1..proc.run.i :
          ProcessedAt(k) # {} /\ Len(ValidationErrorsAt(k)) > 0
    /\ \E k \in 1..proc.run.i :
          SkippedAt(k) # {} /\ Len(ValidationErrorsAt(k)) > 0

\* every handled record is accounted for exactly once
Accounted ==
    /\ \A k \in 1..proc.run.i :
          Cardinality(ProcessedAt(k)) + Cardinality(SkippedAt(k))
            + Cardinality(GeneralErrorsAt(k)) = 1
    /\ proc.run.status = "done" => proc.run.i = Len(proc.run.employees)

\* C3: at every point of a run each record handled so far is exactly one
\* entry of processedEmployees, or one entry of skippedEmployees, or one
\* PARSE_ERROR error with field 'general'; a run that has not returned is
\* waiting for its timer and nothing else; every step of a run goes on to
\* a later record or returns; and a run that has returned has handled the
\* whole batch.
C3_AccountedExactlyOnce ==
    /\ []Accounted
    /\ [](proc.run.status = "running" => proc.run.awaiting)
    /\ [][proc.run.status = "running" /\ proc' # proc =>
            proc'.run.i > proc.run.i \/ proc'.run.status = "done"]_vars

\* a run has returned with its first record both in processedEmployees and
\* under a PARSE_ERROR error
C3_Witness ==
    /\ proc.run.status = "done"
    /\ ProcessedAt(1) # {}
    /\ GeneralErrorsAt(1) # {}

StatusValues ==
    {"Completed", "Authorized", "Pending_Section_2", "Not_Started", "Pending", "",
     "completed", "Completed ", "AUTHORIZED"}

GateRecords ==
    LET base == Without(extractEmployeeData(BaseRow), {"i9_status", "e_verify_status"})
        WithI9 == {base} \cup {Put(base, "i9_status", v) : v \in StatusValues}
    IN  WithI9 \cup {Put(r, "e_verify_status", v) : r \in WithI9, v \in StatusValues}

InitGate ==
    /\ fn \in {[InitFn EXCEPT !.arg = r] : r \in GateRecords}
    /\ ls = InitStorage
    /\ heap = <<>>
    /\ app = InitApp
    /\ parse = InitParse
    /\ proc = InitProc
    /\ dash = NoDash
    /\ tick = 1

\* a call of isPayrollReady(record)
CallIsPayrollReady ==
    /\ fn.op = ""
    /\ fn' = [fn EXCEPT !.op = "isPayrollReady", !.out = isPayrollReady(fn.arg),
                        !.calls = @ + 1]
    /\ UNCHANGED <<ls, heap, app, parse, proc, dash, tick>>

NextGate == CallIsPayrollReady

SpecGate == InitGate /\ [][NextGate]_vars

\* C1: isPayrollReady returns true exactly for a record that has the field
\* i9_status with the value "Completed" and the field e_verify_status with
\* the value "Authorized", and false for every other record, a record that
\* lacks one of the fields or has it empty included.
C1_GateIffBothStatuses ==
    fn.op = "isPayrollReady" =>
        (fn.out = TRUE <=>
            /\ "i9_status" \in DOMAIN fn.arg
            /\ fn.arg["i9_status"] = "Completed"
            /\ "e_verify_status" \in DOMAIN fn.arg
            /\ fn.arg["e_verify_status"] = "Authorized")

\* the gate has refused a record with a completed I-9 and no E-Verify field
C1_Witness ==
    /\ fn.op = "isPayrollReady"
    /\ fn.out = FALSE
    /\ "i9_status" \in DOMAIN fn.arg
    /\ fn.arg["i9_status"] = "Completed"
    /\ "e_verify_status" \notin DOMAIN fn.arg

(***************************************************************************)
(* processCSV on its own: every file of up to MaxRows data rows under a    *)
(* header with or without the record_type column, parsed row by row with a *)
(* progress callback that may throw on any call.  The promise is rejected  *)
(* when the call made by the complete callback throws.                     *)
(***************************************************************************)
ParseHeader == BaseHeader \o <<"full_name", "home_address", "work_address">>

\* a row under ParseHeader: every column has a value, "" if none is given
Wide(row) == [k \in Range(ParseHeader) |-> IF k \in DOMAIN row THEN row[k] ELSE ""]

pDet == Wide(rOk)
pHdr == Wide(Put(rOk, "record_type", "HDR"))
pFtr == Wide(Put(rOk, "record_type", "FTR"))
pLower == Wide(Put(rOk, "record_type", "det"))
pBlank == Wide(Put(rOk, "record_type", ""))
pPadded == Wide(Put(rOk, "record_type", "DET "))
\* a detail row without a record sequence
pNoSeq == Wide(Put(rOk, "record_sequence", ""))
\* a detail row with the name and the home address in combined columns
pMessy ==
    [Wide(rOk) EXCEPT !["first_name"] = "", !["last_name"] = "", !["full_name"] = "Ann Lee",
                      !["home_street"] = "", !["home_city"] = "", !["home_state"] = "",
                      !["home_zip"] = "",
                      !["home_address"] = "1 Main St, Aiken, SC 29801"]

ParseRowKinds == {pDet, pHdr, pFtr, pLower, pBlank, pPadded, pNoSeq, pMessy}

ParseInputs ==
    LET typed == UNION {[1..n -> ParseRowKinds] : n \in 1..MaxRows}
        header == SelectSeq(ParseHeader, LAMBDA k : k # "record_type")
    IN  {[header |-> ParseHeader, rows |-> rows] : rows \in typed}
          \cup {[header |-> header,
                 rows |-> [k \in DOMAIN rows |-> Without(rows[k], {"record_type"})]] :
                   rows \in typed}

\* threw: the row numbers at which the callback threw; doneThrew: whether
\* its call by the complete callback threw
InitParseCSV ==
    /\ parse \in {[status |-> "parsing", header |-> in.header, rows |-> in.rows, pos |-> 0,
                   p |-> ParserStart(1), threw |-> {}, doneThrew |-> FALSE] :
                     in \in ParseInputs}
    /\ ls = InitStorage
    /\ heap = <<>>
    /\ app = InitApp
    /\ proc = InitProc
    /\ dash = NoDash
    /\ tick = 1
    /\ fn = InitFn

\* Papa's step for the next row of the file
ParseRow ==
    /\ parse.status = "parsing"
    /\ parse.pos < Len(parse.rows)
    /\ \E callbackThrows \in BOOLEAN :
          LET row == parse.rows[parse.pos + 1]
          IN  /\ callbackThrows => IsDetailRow(row)
              /\ parse' = [parse EXCEPT
                              !.p = ParseStep(@, parse.header, row, callbackThrows),
                              !.pos = @ + 1,
                              !.threw = IF callbackThrows THEN @ \cup {parse.pos + 1} ELSE @]
    /\ UNCHANGED <<ls, heap, app, proc, dash, tick, fn>>

\* Papa's complete: the last progress call, then resolve; an exception of
\* the call leaves the executor of the promise, which rejects it
ParseDone ==
    /\ parse.status = "parsing"
    /\ parse.pos = Len(parse.rows)
    /\ \E callbackThrows \in BOOLEAN :
          parse' = [parse EXCEPT
                       !.p = ParseComplete(@, parse.header),
                       !.status = IF callbackThrows THEN "rejected" ELSE "resolved",
                       !.doneThrew = callbackThrows]
    /\ UNCHANGED <<ls, heap, app, proc, dash, tick, fn>>

NextParseCSV == ParseRow \/ ParseDone

SpecParseCSV == InitParseCSV /\ [][NextParseCSV]_vars

\* the rows among the first n of the file whose record_type is exactly 'DET'
ExactDetRows(n) == {k \in 1..n : Get(parse.rows[k], "record_type") = "DET"}

\* the rows among the first n of the file that the step treats as detail rows
DetailRows(n) == {k \in 1..n : IsDetailRow(parse.rows[k])}

\* C4: when Papa's step has handled a row, the returned rows have grown by
\* one row, which is that row without its tracking fields, if the row's
\* record_type is 'DET'; for any other row the returned rows and the errors
\* are as they were.
C4_ExactlyTheDetRows ==
    [][parse'.pos = parse.pos + 1 =>
          LET row == parse.rows[parse.pos + 1]
              rows == parse.p.processedRows
              rowsAfter == parse'.p.processedRows
          IN  IF Get(row, "record_type") = "DET"
              THEN /\ Len(rowsAfter) = Len(rows) + 1
                   /\ SubSeq(rowsAfter, 1, Len(rows)) = rows
                   /\ rowsAfter[Len(rowsAfter)]["employee_id"] = row["employee_id"]
                   /\ DOMAIN rowsAfter[Len(rowsAfter)]
                        \cap {"record_type", "record_sequence", "company_id"} = {}
              ELSE /\ rowsAfter = rows
                   /\ parse'.p.errors = parse.p.errors]_vars

\* the parse has returned a row whose record_type is 'det'
C4_Witness ==
    /\ parse.status = "resolved"
    /\ Len(parse.rows) = 1
    /\ Get(parse.rows[1], "record_type") = "det"
    /\ Len(parse.p.processedRows) = 1

\* the entries that the catch block of the step has added, by row number
CaughtRows(errors) ==
    LET caught == SelectSeq(errors, LAMBDA e : SubSeq(e.message, 1, 22) = "Failed to process row ")
    IN  [k \in DOMAIN caught |-> caught[k].row]

RECURSIVE Ascending(_)
Ascending(set) ==
    IF set = {} THEN <<>>
    ELSE LET least == CHOOSE x \in set : \A y \in set : x <= y
         IN  <<least>> \o Ascending(set \ {least})

\* C5: the errors hold one caught entry for each row at which the callback
\* threw, carrying that row's number, in the order of the rows; every
\* detail row handled so far is in the returned rows, the rows at which the
\* callback threw and the rows after them included; and the promise is
\* resolved unless the call made by the complete callback threw.
C5_RowExceptionIsCaught ==
    /\ CaughtRows(parse.p.errors) = Ascending(parse.threw)
    /\ Len(parse.p.processedRows) = Cardinality(DetailRows(parse.pos))
    /\ parse.status = "rejected" <=> parse.doneThrew

\* the callback threw at the first of two detail rows; both rows are
\* returned and the promise is resolved
C5_Witness ==
    /\ parse.status = "resolved"
    /\ parse.threw = {1}
    /\ Len(parse.rows) = 2
    /\ DetailRows(2) = {1, 2}
    /\ Len(parse.p.processedRows) = 2
    /\ CaughtRows(parse.p.errors) = <<1>>

(***************************************************************************)
(* The error tracker on its own: up to MaxLedgerOps calls of its functions,*)
(* in any order, with error batches and corrections from small sets.  fn   *)
(* holds the last call: its name, its argument and what it returned.       *)
(***************************************************************************)
LedgerError(n, field, value) ==
    createError(Finding(field, value, "INVALID_FORMAT", "Invalid " \o field, "Fix " \o field),
                extractEmployeeData(rBad), 0, BaseHeader, n)

LedgerBatches ==
    { <<LedgerError(1, "ssn", "123456789")>>,
      <<LedgerError(2, "home_zip", "2980")>>,
      <<LedgerError(1, "ssn", "123456789"), LedgerError(2, "home_zip", "2980")>> }

LedgerCorrections ==
    {Correction(IdOf(n), original, corrected, UNDEFINED) :
        n \in 1..2, original \in {"123456789"}, corrected \in {"123-45-6789", "29801", ""}}

InitLedger ==
    /\ ls = InitStorage
    /\ heap = <<>>
    /\ app = InitApp
    /\ parse = InitParse
    /\ proc = InitProc
    /\ dash = NoDash
    /\ tick = 3
    /\ fn = InitFn

LedgerCall(op, arg, out) ==
    /\ fn.calls < MaxLedgerOps
    /\ fn' = [op |-> op, arg |-> arg, out |-> out, calls |-> fn.calls + 1]
    /\ UNCHANGED <<heap, app, parse, proc, dash>>

CallStoreErrors ==
    \E errors \in LedgerBatches :
        /\ LedgerCall("storeErrors", errors, <<>>)
        /\ ls' = storeErrors(ls, errors)
        /\ tick' = tick

CallClearStoredErrors ==
    /\ LedgerCall("clearStoredErrors", <<>>, <<>>)
    /\ ls' = clearStoredErrors(ls)
    /\ tick' = tick

CallRecordCorrection ==
    \E correction \in LedgerCorrections :
        /\ LedgerCall("recordCorrection", correction, <<>>)
        /\ ls' = recordCorrection(ls, correction, tick)
        /\ tick' = tick + 1

CallClearStoredCorrections ==
    /\ LedgerCall("clearStoredCorrections", <<>>, <<>>)
    /\ ls' = clearStoredCorrections(ls)
    /\ tick' = tick

\* generateErrorReport(getStoredErrors(), getStoredCorrections())
CallGenerateErrorReport ==
    /\ LedgerCall("generateErrorReport",
                  [errors |-> getStoredErrors(ls), corrections |-> getStoredCorrections(ls)],
                  generateErrorReport(getStoredErrors(ls), getStoredCorrections(ls)))
    /\ UNCHANGED <<ls, tick>>

NextLedger ==
    \/ CallStoreErrors
    \/ CallClearStoredErrors
    \/ CallRecordCorrection
    \/ CallClearStoredCorrections
    \/ CallGenerateErrorReport

SpecLedger == InitLedger /\ [][NextLedger]_vars

\* a stored correction without the time recordCorrection gave it
Recorded(c) ==
    [errorId |-> c.errorId, originalValue |-> c.originalValue,
     correctedValue |-> c.correctedValue, notes |-> c.notes]

CorrectionsOf(corrections, errorId) ==
    {k \in DOMAIN corrections : corrections[k].errorId = errorId}

Last(set) == CHOOSE k \in set : \A j \in set : j <= k

\* C7: in a report, the row of an error that has corrections shows the
\* corrected value and the time of the one recorded last, and the row of
\* an error without corrections has both columns empty.
C7_ReportShowsLastCorrection ==
    fn.op = "generateErrorReport" =>
        /\ Len(fn.out) = Len(fn.arg.errors)
        /\ \A i \in DOMAIN fn.arg.errors :
              LET own == CorrectionsOf(fn.arg.corrections, fn.arg.errors[i].id)
              IN  /\ fn.out[i].ErrorID = fn.arg.errors[i].id
                  /\ IF own = {}
                     THEN fn.out[i].CorrectedValue = "" /\ fn.out[i].CorrectedAt = ""
                     ELSE /\ fn.out[i].CorrectedValue
                               = fn.arg.corrections[Last(own)].correctedValue
                          /\ fn.out[i].CorrectedAt = fn.arg.corrections[Last(own)].correctedAt

\* a report over an error with two different corrections and an error with
\* none
C7_Witness ==
    /\ fn.op = "generateErrorReport"
    /\ \E i \in DOMAIN fn.arg.errors :
          CorrectionsOf(fn.arg.corrections, fn.arg.errors[i].id) = {}
    /\ \E i \in DOMAIN fn.arg.errors :
          LET own == CorrectionsOf(fn.arg.corrections, fn.arg.errors[i].id)
          IN  /\ Cardinality(own) = 2
              /\ \E j \in own : fn.arg.corrections[j].correctedValue
                                  # fn.arg.corrections[Last(own)].correctedValue
              /\ fn.out[i].CorrectedValue # ""

(***************************************************************************)
(* Properties of the correction workflow, under Spec.                      *)
(***************************************************************************)
\* the step is the 'confirm' step of the open modal
ConfirmStep ==
    /\ dash.modal.open
    /\ dash.modal.currentStep = "confirm"
    /\ dash'.modal.currentStep = "success"

HasId(errors, id) == \E k \in DOMAIN errors : errors[k].id = id

\* C8: a step that records a correction leaves the stored errors and the
\* displayed result as they were, so that the corrected error is still in
\* both, and changes no record but by the modal's own writes on its
\* employee; and a displayed result changes only by being taken down (a new
\* upload from the dashboard, a change of tab) or by a new run.
C8_RecordCorrectionFrame ==
    /\ [][getStoredCorrections(ls') # getStoredCorrections(ls) =>
            /\ getStoredErrors(ls') = getStoredErrors(ls)
            /\ ls'.mapping = ls.mapping
            /\ dash'.hasResult /\ dash'.result = dash.result
            /\ HasId(getStoredErrors(ls'), dash.modal.error.id)
            /\ HasId(dash'.result.errors, dash.modal.error.id)
            /\ \A r \in DOMAIN heap :
                  r # getErrorRow(dash.modal.error) => heap'[r] = heap[r]]_vars
    /\ [][dash.hasResult /\ dash'.hasResult /\ proc'.runs = proc.runs =>
            dash'.result = dash.result]_vars

\* a correction is stored, its error is still stored and displayed, and the
\* record holds the corrected value
C8_Witness ==
    /\ Len(getStoredCorrections(ls)) = 1
    /\ dash.hasResult
    /\ dash.modal.currentStep = "success"
    /\ HasId(getStoredErrors(ls), getStoredCorrections(ls)[1].errorId)
    /\ HasId(dash.result.errors, getStoredCorrections(ls)[1].errorId)
    /\ dash.modal.error.field = "ssn"
    /\ heap[getErrorRow(dash.modal.error)]["ssn"] = "987-65-4321"

\* C10: the 'confirm' step writes the corrected value into the error's
\* field of the record whose validation produced the error, the record at
\* the error's row in the array that was processed, and appends one
\* correction with the error's id, its original value and the corrected
\* value; every other step leaves the existing records and the stored
\* corrections as they were.
C10_ConfirmCorrectsTheErrorsRecord ==
    [][IF ConfirmStep
       THEN LET error == dash.modal.error
                validated == dash.source[error.row]
                stored == getStoredCorrections(ls')
                added == stored[Len(stored)]
            IN  /\ Len(stored) = Len(getStoredCorrections(ls)) + 1
                /\ IsPrefix(getStoredCorrections(ls), stored)
                /\ added.errorId = error.id
                /\ added.originalValue \in {error.value, OrEmpty(error.value)}
                /\ heap'[validated][error.field] = added.correctedValue
       ELSE /\ getStoredCorrections(ls') = getStoredCorrections(ls)
            /\ \A r \in DOMAIN heap : heap'[r] = heap[r]]_vars

\* a correction was confirmed on a result whose run was given another array
\* than the one the application holds
C10_Witness ==
    /\ dash.modal.currentStep = "success"
    /\ Len(getStoredCorrections(ls)) = 1
    /\ dash.source # app.employees


(***************************************************************************)
(* The transformer and the mapping controller on their own: one record,    *)
(* and up to MaxTransformOps calls of saveMapping, resetMapping,           *)
(* importMapping, getMapping, transformToADP and transformToQuickBooks in  *)
(* any order.  fn holds the last call and, in prev, the transform call     *)
(* before it.                                                              *)
(***************************************************************************)
\* a record with every optional field the default transformations read
FullRecord ==
    LET base == extractEmployeeData(BaseRow)
        extra == Row(<< <<"work_street", "2 Oak Ave">>, <<"work_city", "Aiken">>,
                        <<"work_state", "SC">>, <<"work_zip", "29801">>,
                        <<"health_plan_name", "PPO">>,
                        <<"health_deduction_per_paycheck", "50.00">>,
                        <<"retirement_plan_type", "401k">>,
                        <<"retirement_contribution_percent", "5">>,
                        <<"retirement_loan_repayment", "25.00">>,
                        <<"garnishment_type", "Levy">>,
                        <<"garnishment_amount_per_paycheck", "100.00">>,
                        <<"dd2_routing_number", "987654321">>,
                        <<"dd2_account_number", "2222">>,
                        <<"dd2_account_type", "Savings">> >>)
    IN  [k \in DOMAIN base \cup DOMAIN extra |->
            IF k \in DOMAIN extra THEN extra[k] ELSE base[k]]

NameFields == {"first_name", "last_name"}

AddressFields ==
    {"home_street", "home_city", "home_state", "home_zip",
     "work_street", "work_city", "work_state", "work_zip"}

\* the record with the given fields empty
Emptied(record, fields) ==
    [k \in DOMAIN record \cup fields |-> IF k \in fields THEN "" ELSE record[k]]

TransformRecords ==
    { FullRecord,
      extractEmployeeData(BaseRow),
      Put(FullRecord, "fed_status", ""),
      Put(FullRecord, "fed_status", "Married"),
      Put(FullRecord, "fed_status", "Qualifying Widow"),
      Without(FullRecord, NameFields \cup AddressFields),
      Emptied(FullRecord, NameFields \cup AddressFields),
      Without(FullRecord, {"dd1_split_value", "annual_salary"}),
      Put(FullRecord, "annual_salary", "52,000") }

\* the mappings the editor saves: the one it shows, and that one with the
\* target field of its second row typed over with the target of the first
Retargeted(mapping) ==
    [mapping EXCEPT !.fieldMappings[2].targetField = mapping.fieldMappings[1].targetField]

EditorMappings(storage, provider) ==
    {getMapping(storage, provider), Retargeted(getMapping(storage, provider))}

InitTransform ==
    /\ ls = InitStorage
    /\ heap \in {<<r>> : r \in TransformRecords}
    /\ app = InitApp
    /\ parse = InitParse
    /\ proc = InitProc
    /\ dash = NoDash
    /\ tick = 1
    /\ fn = [op |-> "", arg |-> <<>>, out |-> <<>>, calls |-> 0, prev |-> <<>>]

TransformOps == {"transformToADP", "transformToQuickBooks"}

TransformCall(op, arg, out) ==
    /\ fn.calls < MaxTransformOps
    /\ fn' = [op |-> op, arg |-> arg, out |-> out, calls |-> fn.calls + 1,
              prev |-> IF fn.op \in TransformOps
                       THEN <<[op |-> fn.op, arg |-> fn.arg, out |-> fn.out]>>
                       ELSE fn.prev]
    /\ UNCHANGED <<heap, app, parse, proc, dash, tick>>

CallSaveMapping ==
    \E provider \in Providers :
        \E mapping \in EditorMappings(ls, provider) :
            /\ TransformCall("saveMapping", [provider |-> provider, mapping |-> mapping], <<>>)
            /\ ls' = saveMapping(ls, provider, mapping)

CallResetMapping ==
    \E provider \in Providers :
        /\ TransformCall("resetMapping",
                         [provider |-> provider, mapping |-> DefaultMapping(provider)],
                         DefaultMapping(provider))
        /\ ls' = resetMapping(ls, provider)

CallImportMapping ==
    \E provider \in Providers :
        \E k \in DOMAIN ImportFiles(provider) :
            /\ TransformCall("importMapping",
                             [provider |-> provider, mapping |-> ImportFiles(provider)[k]],
                             <<>>)
            /\ ls' = importMapping(ls, provider, ImportFiles(provider)[k])

CallGetMapping ==
    \E provider \in Providers :
        /\ TransformCall("getMapping", [provider |-> provider], getMapping(ls, provider))
        /\ ls' = ls

\* what a call of a transform is given and what it does: the mapping in
\* effect, the record, the outcome and the second loop's invocations
TransformArg(provider) ==
    [provider |-> provider, mapping |-> getProviderMapping(ls, provider), record |-> heap[1]]

TransformOut(outcome, mapping, employee) ==
    [threw |-> outcome.threw, record |-> outcome.record,
     second |-> SecondLoopCalls(mapping, employee)]

CallTransformToADP ==
    /\ TransformCall("transformToADP", TransformArg("ADP"),
                     TransformOut(transformToADP(ls, heap[1]),
                                  getProviderMapping(ls, "ADP"), heap[1]))
    /\ ls' = ls

CallTransformToQuickBooks ==
    /\ TransformCall("transformToQuickBooks", TransformArg("QuickBooks"),
                     TransformOut(transformToQuickBooks(ls, heap[1]),
                                  getProviderMapping(ls, "QuickBooks"), heap[1]))
    /\ ls' = ls

NextTransform ==
    \/ CallSaveMapping
    \/ CallResetMapping
    \/ CallImportMapping
    \/ CallGetMapping
    \/ CallTransformToADP
    \/ CallTransformToQuickBooks

SpecTransform == InitTransform /\ [][NextTransform]_vars


(***************************************************************************)
(* Properties of the transforms and of the mapping controller.             *)
(***************************************************************************)
\* the last call was a transform, and it returned
Transformed == fn.op \in TransformOps /\ ~fn.out.threw

TargetFields(mapping) ==
    {mapping.fieldMappings[k].targetField : k \in DOMAIN mapping.fieldMappings}

TableKeys(mapping) ==
    {mapping.transformations[k].key : k \in DOMAIN mapping.transformations}

\* the value stated for the target field of a pair: the transformation of
\* the target field applied to the source value as a string and the record,
\* or that string itself when the target field has no transformation
StatedValue(mapping, record, fm) ==
    IF Lookup(mapping.transformations, fm.targetField).truthy
    THEN ApplyTransformation(Lookup(mapping.transformations, fm.targetField).name,
                             OrEmpty(Get(record, fm.sourceField)), record)
    ELSE OrEmpty(Get(record, fm.sourceField))

\* pair k is the last pair of the list that declares its target field
IsLastOfTarget(mapping, k) ==
    \A j \in DOMAIN mapping.fieldMappings :
        j > k => mapping.fieldMappings[j].targetField # mapping.fieldMappings[k].targetField

\* C11 (as stated): in the output of a transform, the value of the target
\* field of every (sourceField, targetField) pair of the mapping in effect is
\* the result of the target field's transformation called with the source
\* value as a string ('' when absent) and the record, when a transformation
\* is registered, and otherwise the source value as a string.
C11_EveryPairDecidesItsTarget ==
    Transformed =>
        \A k \in DOMAIN fn.arg.mapping.fieldMappings :
            fn.out.record[fn.arg.mapping.fieldMappings[k].targetField]
              = StatedValue(fn.arg.mapping, fn.arg.record, fn.arg.mapping.fieldMappings[k])

\* C11 (amended): the same, for every pair that is the last pair of the list
\* declaring its target field; the value of a target field declared by
\* several pairs is the one of the last of them.
C11_LastPairDecidesItsTarget ==
    Transformed =>
        \A k \in DOMAIN fn.arg.mapping.fieldMappings :
            IsLastOfTarget(fn.arg.mapping, k) =>
                fn.out.record[fn.arg.mapping.fieldMappings[k].targetField]
                  = StatedValue(fn.arg.mapping, fn.arg.record, fn.arg.mapping.fieldMappings[k])

\* a transform returned under a mapping in which two pairs with different
\* source values declare the same target field
C11_Witness ==
    /\ Transformed
    /\ \E j, k \in DOMAIN fn.arg.mapping.fieldMappings :
          /\ j < k
          /\ fn.arg.mapping.fieldMappings[j].targetField
               = fn.arg.mapping.fieldMappings[k].targetField
          /\ OrEmpty(Get(fn.arg.record, fn.arg.mapping.fieldMappings[j].sourceField))
               # OrEmpty(Get(fn.arg.record, fn.arg.mapping.fieldMappings[k].sourceField))

\* C12: in a transform that returns, the second loop calls a transformation
\* with an empty source value only for the keys of the transformation table
\* that are not target fields of the field-mapping list: it recomputes no
\* target field that the first loop wrote.
C12_SecondLoopSkipsWrittenTargets ==
    Transformed =>
        fn.out.second \subseteq TableKeys(fn.arg.mapping) \ TargetFields(fn.arg.mapping)

\* the second loop called the transformation of a target field that the
\* first loop had written
C12_Witness ==
    /\ Transformed
    /\ fn.out.second \cap TargetFields(fn.arg.mapping) # {}

\* C13 (as stated): the keys of the output record of a transform are exactly
\* the target fields declared in the field-mapping list of the mapping in
\* effect.
C13_KeysAreTheDeclaredTargets ==
    Transformed => DOMAIN fn.out.record = TargetFields(fn.arg.mapping)

\* C13 (amended): the keys of the output record of a transform are exactly
\* the target fields declared in the field-mapping list together with the
\* keys of the transformation table of the mapping in effect.
C13_KeysAreTargetsAndTableKeys ==
    Transformed =>
        DOMAIN fn.out.record = TargetFields(fn.arg.mapping) \cup TableKeys(fn.arg.mapping)

\* a transform returned under a mapping whose transformation table has a key
\* that is no declared target field
C13_Witness ==
    /\ Transformed
    /\ TableKeys(fn.arg.mapping) \ TargetFields(fn.arg.mapping) # {}

MappingWrites == {"saveMapping", "importMapping", "resetMapping"}

\* C15: after a call of saveMapping, importMapping or resetMapping for a
\* provider, the mapping that getMapping returns and that the transforms use
\* for that provider is the mapping given to the call, its field-mapping
\* list and its transformation table; after resetMapping a transform gives
\* the same output as under the built-in default mapping.
C15_MappingReplacedWholesale ==
    /\ fn.op \in MappingWrites =>
          /\ getMapping(ls, fn.arg.provider) = fn.arg.mapping
          /\ getProviderMapping(ls, fn.arg.provider) = fn.arg.mapping
    /\ fn.op = "resetMapping" =>
          transform(getProviderMapping(ls, fn.arg.provider), heap[1])
            = transform(DefaultMapping(fn.arg.provider), heap[1])

\* resetMapping has returned, and the transform under the mapping now in
\* effect lacks an output of the built-in default mapping
C15_Witness ==
    /\ fn.op = "resetMapping"
    /\ ~transform(getProviderMapping(ls, fn.arg.provider), heap[1]).threw
    /\ DOMAIN transform(DefaultMapping(fn.arg.provider), heap[1]).record
         \ DOMAIN transform(getProviderMapping(ls, fn.arg.provider), heap[1]).record # {}

\* the fields of the record that the transformation of a key of the default
\* mappings reads (the mapped source field for the two status conversions)
UpstreamFields(key) ==
    CASE key \in {"Fed_W4_Status", "Federal Filing Status"} -> {"fed_status"}
      [] key \in {"PayRate", "Pay Rate ($)"} -> {"annual_salary", "pay_frequency"}
      [] key = "Deduct_Code_1" -> {"health_plan_name"}
      [] key = "Deduct_Amt_1" -> {"health_deduction_per_paycheck"}
      [] key = "Deduct_Code_2" -> {"retirement_plan_type"}
      [] key \in {"Deduct_Amt_2", "Retirement Deduction"} ->
           {"retirement_plan_type", "annual_salary", "retirement_contribution_percent",
            "pay_frequency"}
      [] key \in {"Deduct_Code_3", "Deduct_Amt_3", "Retirement Loan"} ->
           {"retirement_loan_repayment"}
      [] key = "Deduct_Code_4" -> {"garnishment_type"}
      [] key = "Deduct_Amt_4" -> {"garnishment_amount_per_paycheck"}
      [] key = "Full Name" -> {"first_name", "last_name"}
      [] key = "Home Address" -> {"home_street", "home_city", "home_state", "home_zip"}
      [] key = "Work Location" -> {"work_street", "work_city", "work_state", "work_zip"}
      [] key = "Direct Deposit 1" ->
           {"dd1_routing_number", "dd1_account_number", "dd1_account_type",
            "dd1_split_type", "dd1_split_value"}
      [] key = "Direct Deposit 2" ->
           {"dd2_routing_number", "dd2_account_number", "dd2_account_type"}
      [] key = "Health Deduction" -> {"health_plan_name", "health_deduction_per_paycheck"}
      [] key = "Garnishment" -> {"garnishment_type", "garnishment_amount_per_paycheck"}

SafeDefaults == {"", "0.00"}

\* the outputs of a transform under a default mapping whose transformation
\* reads only fields that the record lacks or has empty
OutputsOfMissing ==
    {key \in TableKeys(fn.arg.mapping) :
        \A f \in UpstreamFields(key) : ~Truthy(Get(fn.arg.record, f))}

\* C16: under a default mapping, the output of every transformation whose
\* upstream fields are all missing or empty in the record is a safe default,
\* the empty string or "0.00".
C16_MissingFieldsGiveSafeDefaults ==
    Transformed /\ fn.arg.mapping = DefaultMapping(fn.arg.provider) =>
        \A key \in OutputsOfMissing : fn.out.record[key] \in SafeDefaults

\* a transform under a default mapping returned text built from missing
\* fields
C16_Witness ==
    /\ Transformed
    /\ fn.arg.mapping = DefaultMapping(fn.arg.provider)
    /\ "Full Name" \in OutputsOfMissing
    /\ fn.out.record["Full Name"] = "undefined undefined"


(***************************************************************************)
(* The per-paycheck rate on its own: the 'PayRate' transformation of the   *)
(* ADP mapping and the 'Pay Rate ($)' transformation of the QuickBooks     *)
(* mapping, called on a record with an annual_salary and a pay_frequency   *)
(* from small sets, either of them possibly absent.  The salaries are      *)
(* decimal texts whose quotients are exact in binary floating point, and   *)
(* texts that are no decimal number.                                       *)
(***************************************************************************)
PaySalaries ==
    {"120000", "52000", "26003.25", "1000.5", "0", "abc", "", "52,000", "12abc", "$52000",
     UNDEFINED}

PayFrequencies ==
    {"Weekly", "Bi-weekly", "Semi-monthly", "Monthly", "Quarterly", "weekly", UNDEFINED}

\* the object with the fields that are given
PayRecord(salary, frequency) ==
    [k \in (IF salary = UNDEFINED THEN {} ELSE {"annual_salary"})
            \cup (IF frequency = UNDEFINED THEN {} ELSE {"pay_frequency"}) |->
        IF k = "annual_salary" THEN salary ELSE frequency]

InitPayRate ==
    /\ fn \in {[InitFn EXCEPT !.arg = PayRecord(salary, frequency)] :
                  salary \in PaySalaries, frequency \in PayFrequencies}
    /\ ls = InitStorage
    /\ heap = <<>>
    /\ app = InitApp
    /\ parse = InitParse
    /\ proc = InitProc
    /\ dash = NoDash
    /\ tick = 1

\* a call of the transformation registered under key in the mapping
CallTransformation(op, mapping, key) ==
    /\ fn.op = ""
    /\ fn' = [fn EXCEPT !.op = op,
                        !.out = ApplyTransformation(Lookup(mapping.transformations, key).name,
                                                    "", fn.arg),
                        !.calls = @ + 1]
    /\ UNCHANGED <<ls, heap, app, parse, proc, dash, tick>>

CallAdpPayRate == CallTransformation("adp.PayRate", adpMapping, "PayRate")

CallQuickBooksPayRate ==
    CallTransformation("quickBooks.PayRate", quickBooksMapping, "Pay Rate ($)")

NextPayRate == CallAdpPayRate \/ CallQuickBooksPayRate

SpecPayRate == InitPayRate /\ [][NextPayRate]_vars

PayRateOps == {"adp.PayRate", "quickBooks.PayRate"}

\* the text is a decimal number: digits, optionally a point and digits
IsDecimalText(v) ==
    /\ v # UNDEFINED
    /\ DigitRun(v, 1) > 0
    /\ \/ DigitRun(v, 1) = Len(v)
       \/ /\ DigitRun(v, 1) + 1 < Len(v)
          /\ Char(v, DigitRun(v, 1) + 1) = "."
          /\ DigitRun(v, DigitRun(v, 1) + 2) = Len(v) - DigitRun(v, 1) - 1

\* the pay periods of a year
PeriodsOf(frequency) ==
    CASE frequency = "Weekly" -> 52
      [] frequency = "Bi-weekly" -> 26
      [] frequency = "Semi-monthly" -> 24
      [] frequency = "Monthly" -> 12
      [] OTHER -> 26

\* the hundredths of a / n rounded half-up, for a not negative
HalfUpCents(a, n) == (2 * a.num * 100 + a.den * n) \div (2 * a.den * n)

\* the hundredths c written with two decimals
Money(c) ==
    NatToString(c \div 100) \o "." \o (IF c % 100 < 10 THEN "0" ELSE "")
      \o NatToString(c % 100)

\* C17: the per-paycheck rate output is annual_salary divided by 52 for
\* 'Weekly', 26 for 'Bi-weekly', 24 for 'Semi-monthly', 12 for 'Monthly' and
\* 26 for any other pay_frequency, rounded half-up to two decimals; an
\* annual_salary that is not a number gives "0.00".
C17_PayRateIsSalaryOverPeriods ==
    fn.op \in PayRateOps =>
        fn.out = IF IsDecimalText(Get(fn.arg, "annual_salary"))
                 THEN Money(HalfUpCents(parseFloat(fn.arg["annual_salary"]),
                                        PeriodsOf(Get(fn.arg, "pay_frequency"))))
                 ELSE "0.00"

\* the rate of a salary text that is no number is not "0.00"
C17_Witness ==
    /\ fn.op \in PayRateOps
    /\ Get(fn.arg, "annual_salary") = "52,000"
    /\ Get(fn.arg, "pay_frequency") = "Bi-weekly"
    /\ fn.out = "2.00"


(***************************************************************************)
(* validateEmployeeRecord on its own.  The records are a record that passes*)
(* every rule with up to MaxBroken of its rules broken, each by the values *)
(* of one RuleBreaker, and that record with the split types and values of  *)
(* both deposits drawn from small sets.  The split values are decimal      *)
(* texts whose sums are exact in binary floating point.                    *)
(***************************************************************************)
ValidBase == Put(FullRecord, "manager_email", "boss@corp.io")

\* values that break one rule, and the field and type of the rule's error
\* (combined: the error's value is the two split values)
RuleBreaker(pairs, field, errorType, combined) ==
    [changes |-> Row(pairs), field |-> field, errorType |-> errorType, combined |-> combined]

\* in the order in which validateEmployeeRecord declares the rules
RuleBreakers ==
    << RuleBreaker(<< <<"first_name", "">> >>, "first_name", "REQUIRED_FIELD_MISSING", FALSE),
       RuleBreaker(<< <<"home_city", "  ">> >>, "home_city", "REQUIRED_FIELD_MISSING", FALSE),
       RuleBreaker(<< <<"dob", "05/15/1990">> >>, "dob", "INVALID_FORMAT", FALSE),
       RuleBreaker(<< <<"hire_date", "2025-13-01">> >>, "hire_date", "INVALID_FORMAT", FALSE),
       RuleBreaker(<< <<"ssn", "123456789">> >>, "ssn", "INVALID_FORMAT", FALSE),
       RuleBreaker(<< <<"manager_email", "boss">> >>, "manager_email", "INVALID_FORMAT", FALSE),
       RuleBreaker(<< <<"home_state", "S1">> >>, "home_state", "INVALID_FORMAT", FALSE),
       RuleBreaker(<< <<"work_state", "South">> >>, "work_state", "INVALID_FORMAT", FALSE),
       RuleBreaker(<< <<"home_zip", "2980">> >>, "home_zip", "INVALID_FORMAT", FALSE),
       RuleBreaker(<< <<"work_zip", "ABCDE">> >>, "work_zip", "INVALID_FORMAT", FALSE),
       RuleBreaker(<< <<"dd1_routing_number", "12345">> >>, "dd1_routing_number",
                   "INVALID_FORMAT", FALSE),
       RuleBreaker(<< <<"dd2_routing_number", "12">> >>, "dd2_routing_number",
                   "INVALID_FORMAT", FALSE),
       RuleBreaker(<< <<"annual_salary", "abc">> >>, "annual_salary", "INVALID_FORMAT", FALSE),
       RuleBreaker(<< <<"flsa_status", "Salaried">> >>, "flsa_status", "INVALID_FORMAT", FALSE),
       RuleBreaker(<< <<"pay_frequency", "Yearly">> >>, "pay_frequency", "INVALID_FORMAT", FALSE),
       RuleBreaker(<< <<"dd1_split_value", "150">> >>, "dd1_split_value",
                   "BUSINESS_LOGIC_ERROR", FALSE),
       RuleBreaker(<< <<"dd2_split_type", "Percent">>, <<"dd2_split_value", "50">> >>,
                   "dd1_split_value", "BUSINESS_LOGIC_ERROR", TRUE) >>

\* the record with the changes of the breakers of the set
Broken(record, broken) ==
    [k \in DOMAIN record \cup UNION {DOMAIN RuleBreakers[i].changes : i \in broken} |->
        IF \E i \in broken : k \in DOMAIN RuleBreakers[i].changes
        THEN RuleBreakers[CHOOSE i \in broken : k \in DOMAIN RuleBreakers[i].changes].changes[k]
        ELSE record[k]]

RuleInputs ==
    {[kind |-> "rules", broken |-> broken, record |-> Broken(ValidBase, broken)] :
        broken \in {b \in SUBSET DOMAIN RuleBreakers : Cardinality(b) <= MaxBroken}}

SplitTypes == {"Percent", "Amount"}

\* the split values of the two deposits
SplitPairs ==
    { <<"60", "40">>, <<"60", "45">>, <<"0", "100">>, <<"0", "50">>, <<"100", "0">>,
      <<"60", "40.0078125">>, <<"60", "40.015625">>,
      <<"59.9921875", "40">>, <<"59.984375", "40">>,
      <<"150", "50">>, <<"-10", "110">>, <<"abc", "40">>, <<"60", "abc">>,
      <<"60", "">>, <<"", "40">>, <<"60", UNDEFINED>>, <<"60abc", "45">> }

SplitRecord(type1, value1, type2, value2) ==
    LET base == Without(ValidBase, {"dd1_split_value"})
        typed == Put(Put(base, "dd1_split_type", type1), "dd2_split_type", type2)
        first == IF value1 = UNDEFINED THEN typed ELSE Put(typed, "dd1_split_value", value1)
    IN  IF value2 = UNDEFINED THEN first ELSE Put(first, "dd2_split_value", value2)

SplitInputs ==
    {[kind |-> "splits", broken |-> {},
      record |-> SplitRecord(type1, pair[1], type2, pair[2])] :
        type1 \in SplitTypes, type2 \in SplitTypes, pair \in SplitPairs}

InitValidate ==
    /\ fn \in {[InitFn EXCEPT !.arg = input] : input \in RuleInputs \cup SplitInputs}
    /\ ls = InitStorage
    /\ heap = <<>>
    /\ app = InitApp
    /\ parse = InitParse
    /\ proc = InitProc
    /\ dash = NoDash
    /\ tick = 1

\* a call of validateEmployeeRecord(record, 0, headerFields)
CallValidateEmployeeRecord ==
    /\ fn.op = ""
    /\ fn' = [fn EXCEPT !.op = "validateEmployeeRecord",
                        !.out = validateEmployeeRecord(fn.arg.record, 0, BaseHeader,
                                                       SpecLenientDates, tick),
                        !.calls = @ + 1]
    /\ tick' = tick + Len(fn'.out)
    /\ UNCHANGED <<ls, heap, app, parse, proc, dash>>

NextValidate == CallValidateEmployeeRecord

SpecValidate == InitValidate /\ [][NextValidate]_vars

Validated == fn.op = "validateEmployeeRecord"

BothPercent(record) ==
    /\ Get(record, "dd1_split_type") = "Percent"
    /\ Get(record, "dd2_split_type") = "Percent"

\* the split-sum errors among the errors
SumErrors(errors) ==
    {k \in DOMAIN errors :
        /\ errors[k].errorType = "BUSINESS_LOGIC_ERROR"
        /\ IsPrefix("Direct deposit split percentages must sum to 100%", errors[k].message)}

\* p1 + p2 and abs(p1 + p2 - 100) of the two split values as numbers
SplitTotal(record) ==
    NumAdd(parseFloat(Get(record, "dd1_split_value")),
           parseFloat(Get(record, "dd2_split_value")))

OffHundred(record) == NumAbs(NumAdd(SplitTotal(record), NumOf(0 - 100)))

Hundredth == [nan |-> FALSE, num |-> 1, den |-> 100]

InPercentRange(v) ==
    /\ IsDecimalText(v)
    /\ ~NumLess(NumOf(100), parseFloat(v))

BusinessErrors(errors) ==
    {k \in DOMAIN errors : errors[k].errorType = "BUSINESS_LOGIC_ERROR"}

\* C19: when both splits are 'Percent', both split values are numbers in
\* [0,100] and their sum differs from 100 by more than 0.01, the errors of
\* the record have exactly one BUSINESS_LOGIC_ERROR; its field is
\* dd1_split_value, its value is the two split values joined, and its
\* message cites the total followed by '%'.
C19_OneCombinedSplitError ==
    Validated /\ BothPercent(fn.arg.record)
      /\ InPercentRange(Get(fn.arg.record, "dd1_split_value"))
      /\ InPercentRange(Get(fn.arg.record, "dd2_split_value"))
      /\ NumLess(Hundredth, OffHundred(fn.arg.record)) =>
        /\ Cardinality(BusinessErrors(fn.out)) = 1
        /\ \A k \in BusinessErrors(fn.out) :
              /\ fn.out[k].field = "dd1_split_value"
              /\ fn.out[k].value = fn.arg.record["dd1_split_value"] \o " + "
                                     \o fn.arg.record["dd2_split_value"]
              /\ fn.out[k].message =
                    "Direct deposit split percentages must sum to 100%, got: "
                      \o NumToString(SplitTotal(fn.arg.record)) \o "%"

\* split values 60 and 45 have given one error that cites 105%
C19_Witness ==
    /\ Validated
    /\ BothPercent(fn.arg.record)
    /\ Get(fn.arg.record, "dd1_split_value") = "60"
    /\ Get(fn.arg.record, "dd2_split_value") = "45"
    /\ Cardinality(BusinessErrors(fn.out)) = 1
    /\ \E k \in BusinessErrors(fn.out) :
          /\ fn.out[k].value = "60 + 45"
          /\ Contains(fn.out[k].message, "got: 105%")

\* the field, the type and the kind of value of each error, in order
Outline(errors) ==
    [k \in DOMAIN errors |->
        [field |-> errors[k].field, errorType |-> errors[k].errorType,
         combined |-> Contains(errors[k].value, " + ")]]

\* the breakers of the set, in the order of declaration
InOrder(broken) ==
    SelectSeq([i \in DOMAIN RuleBreakers |-> i], LAMBDA i : i \in broken)

BrokenOutline(order) ==
    [k \in DOMAIN order |->
        [field |-> RuleBreakers[order[k]].field,
         errorType |-> RuleBreakers[order[k]].errorType,
         combined |-> RuleBreakers[order[k]].combined]]

\* C20: validateEmployeeRecord returns one error for every rule that the
\* record violates, and the errors are in the order in which the rules are
\* declared: the missing required fields in the order of the required-field
\* list, then the date, SSN, email, state, ZIP, routing, numeric,
\* enumeration and split rules.
C20_OneErrorPerBrokenRuleInOrder ==
    Validated /\ fn.arg.kind = "rules" =>
        Outline(fn.out) = BrokenOutline(InOrder(fn.arg.broken))

\* a record that violates two rules has been given two errors
C20_Witness ==
    /\ Validated
    /\ fn.arg.kind = "rules"
    /\ Cardinality(fn.arg.broken) = 2
    /\ Len(fn.out) = 2


(***************************************************************************)
(* The date rules of validateEmployeeRecord on their own: a valid record   *)
(* with its dob and its hire_date drawn from small sets.  Whether          *)
(* new Date(s) of a text that matches the pattern with a day beyond the    *)
(* month's length is a date depends on the engine (V8 rolls the day over   *)
(* into the next month, others give an invalid date), so each call takes   *)
(* either outcome.                                                         *)
(***************************************************************************)
BirthDates ==
    {"1990-05-15", "13/45/2025", "2025-02-30", "2024-02-29", "2023-02-29", "2025-04-31",
     "2025-13-01", "2025-00-10", "2025-01-32", "2025-01-00", "1990-5-15", "19900515",
     "2025-02-30x", " 1990-05-15", ""}

HireDates == {"2025-11-01", "2025-02-30", "11/01/2025", "2025-06-31", ""}

InitDates ==
    /\ fn \in {[InitFn EXCEPT !.arg = Put(Put(ValidBase, "dob", dob), "hire_date", hire)] :
                  dob \in BirthDates, hire \in HireDates}
    /\ ls = InitStorage
    /\ heap = <<>>
    /\ app = InitApp
    /\ parse = InitParse
    /\ proc = InitProc
    /\ dash = NoDash
    /\ tick = 1

\* a call of validateEmployeeRecord(record, 0, headerFields) in an engine
\* that is or is not lenient with the day of the month
CallValidateDates ==
    /\ fn.op = ""
    /\ \E lenient \in BOOLEAN :
          fn' = [fn EXCEPT !.op = "validateEmployeeRecord",
                           !.out = [lenient |-> lenient,
                                    errors |-> validateEmployeeRecord(fn.arg, 0, BaseHeader,
                                                                      lenient, tick)],
                           !.calls = @ + 1]
    /\ tick' = tick + Len(fn'.out.errors)
    /\ UNCHANGED <<ls, heap, app, parse, proc, dash>>

NextDates == CallValidateDates

SpecDates == InitDates /\ [][NextDates]_vars

\* the text has the shape YYYY-MM-DD and names a day of the calendar
IsCalendarDate(s) ==
    /\ MatchesDatePattern(s)
    /\ DigitsValue(SubSeq(s, 6, 7)) \in 1..12
    /\ DigitsValue(SubSeq(s, 9, 10)) \in
          1..DaysInMonth(DigitsValue(SubSeq(s, 1, 4)), DigitsValue(SubSeq(s, 6, 7)))

\* the errors that name the field
ErrorsNaming(errors, field) == {k \in DOMAIN errors : errors[k].field = field}

DateFields == {"dob", "hire_date"}

\* C21: a non-empty dob or hire_date is accepted only if it matches
\* YYYY-MM-DD and is a real calendar date; any other non-empty value gives
\* exactly one error naming the field, an INVALID_FORMAT error whose value is
\* the original text.
C21_OnlyCalendarDatesAccepted ==
    fn.op = "validateEmployeeRecord" =>
        \A field \in DateFields :
            fn.arg[field] # "" /\ ~IsCalendarDate(fn.arg[field]) =>
                /\ Cardinality(ErrorsNaming(fn.out.errors, field)) = 1
                /\ \A k \in ErrorsNaming(fn.out.errors, field) :
                      /\ fn.out.errors[k].errorType = "INVALID_FORMAT"
                      /\ fn.out.errors[k].value = fn.arg[field]

\* the 30th of February has been accepted as a date of birth
C21_Witness ==
    /\ fn.op = "validateEmployeeRecord"
    /\ fn.arg["dob"] = "2025-02-30"
    /\ ErrorsNaming(fn.out.errors, "dob") = {}

(***************************************************************************)
(* The two validator entry points on their own.  A detail record is an    *)
(* employee record with up to MaxDetBroken rules broken, or one with the   *)
(* split values drawn from a small set, together with the three tracking   *)
(* fields drawn from small sets (UNDEFINED: the record has no such field). *)
(* validateDETRecord is called on it, and then validateEmployeeRecord on   *)
(* the same record in the same engine.                                     *)
(***************************************************************************)
MaxDetBroken == 1

DetTypes == {"DET", "det", "HDR", " DET", "", UNDEFINED}

DetSequences == {"7", "12abc", "x", "  ", UNDEFINED}

DetCompanies == {"ACME", "  ", "", UNDEFINED}

DetRowIndexes == {0, 3}

DetSplitPairs == { <<"60", "40">>, <<"60", "45">>, <<"150", "50">>, <<"abc", "40">>,
                   <<"60", "abc">>, <<"60abc", "45">> }

\* the record with the field set, or without it when the value is UNDEFINED
WithField(record, field, value) ==
    IF value = UNDEFINED THEN Without(record, {field}) ELSE Put(record, field, value)

DetEmployees ==
    {Broken(ValidBase, broken) :
        broken \in {b \in SUBSET DOMAIN RuleBreakers : Cardinality(b) <= MaxDetBroken}}
      \cup {SplitRecord("Percent", pair[1], type2, pair[2]) :
               type2 \in SplitTypes, pair \in DetSplitPairs}

DetInputs ==
    {[record |-> WithField(WithField(WithField(employee, "record_type", type),
                                     "record_sequence", sequence),
                           "company_id", company),
      rowIndex |-> rowIndex] :
        employee \in DetEmployees, type \in DetTypes, sequence \in DetSequences,
        company \in DetCompanies, rowIndex \in DetRowIndexes}

InitDet ==
    /\ fn \in {[InitFn EXCEPT !.arg = input] : input \in DetInputs}
    /\ ls = InitStorage
    /\ heap = <<>>
    /\ app = InitApp
    /\ parse = InitParse
    /\ proc = InitProc
    /\ dash = NoDash
    /\ tick = 1

\* a call of validateDETRecord(record, rowIndex) in an engine that is or is
\* not lenient with the day of the month
CallValidateDETRecord ==
    /\ fn.op = ""
    /\ \E lenient \in BOOLEAN :
          fn' = [fn EXCEPT !.op = "validateDETRecord",
                           !.out = [lenient |-> lenient,
                                    det |-> validateDETRecord(fn.arg.record, fn.arg.rowIndex,
                                                              lenient, tick)],
                           !.calls = @ + 1]
    /\ tick' = tick + Len(fn'.out.det)
    /\ UNCHANGED <<ls, heap, app, parse, proc, dash>>

\* the call of validateEmployeeRecord(record, rowIndex, headerFields) on the
\* same record that follows
CallValidateEmployeeOfDet ==
    /\ fn.op = "validateDETRecord"
    /\ fn' = [fn EXCEPT !.op = "validateEmployeeRecord",
                        !.out = [lenient |-> fn.out.lenient,
                                 det |-> fn.out.det,
                                 employee |-> validateEmployeeRecord(
                                                 fn.arg.record, fn.arg.rowIndex, BaseHeader,
                                                 fn.out.lenient, tick)],
                        !.calls = @ + 1]
    /\ tick' = tick + Len(fn'.out.employee)
    /\ UNCHANGED <<ls, heap, app, parse, proc, dash>>

NextDet == CallValidateDETRecord \/ CallValidateEmployeeOfDet

SpecDet == InitDet /\ [][NextDet]_vars

\* validateDETRecord has returned
DetValidated == fn.op \in {"validateDETRecord", "validateEmployeeRecord"}

\* C22: validateDETRecord of a record whose record_type is not exactly 'DET'
\* (any other value, or none) returns an INVALID_FORMAT error for the field
\* record_type.
C22_MismatchedTypeIsReported ==
    DetValidated /\ Get(fn.arg.record, "record_type") # "DET" =>
        \E k \in DOMAIN fn.out.det :
            /\ fn.out.det[k].field = "record_type"
            /\ fn.out.det[k].errorType = "INVALID_FORMAT"

\* a record of type 'det', which the parser takes for a detail row, has been
\* reported
C22_Witness ==
    /\ DetValidated
    /\ Get(fn.arg.record, "record_type") = "det"
    /\ \E k \in DOMAIN fn.out.det :
          fn.out.det[k].field = "record_type" /\ fn.out.det[k].errorType = "INVALID_FORMAT"

\* what two errors are compared on: field, error kind, value, message and
\* row number
Compared(errors) ==
    [k \in DOMAIN errors |->
        [field |-> errors[k].field, errorType |-> errors[k].errorType,
         value |-> errors[k].value, message |-> errors[k].message, row |-> errors[k].row]]

\* both entry points have returned for a record of type 'DET' with a numeric
\* record_sequence
BothValidated ==
    /\ fn.op = "validateEmployeeRecord"
    /\ Get(fn.arg.record, "record_type") = "DET"
    /\ Truthy(Get(fn.arg.record, "record_sequence"))
    /\ isNumeric(fn.arg.record["record_sequence"])

\* C26 as stated: for a record of type 'DET' with a numeric record_sequence
\* and a non-empty company_id, validateDETRecord and validateEmployeeRecord
\* return the same errors in the same order, compared on field, error kind,
\* value, message and row number.
C26_SameErrorsForNonEmptyCompany ==
    BothValidated /\ Truthy(Get(fn.arg.record, "company_id")) =>
        Compared(fn.out.det) = Compared(fn.out.employee)

\* C26, amended: the same, for a company_id that has a character other than
\* white space.
C26_SameErrorsForNonBlankCompany ==
    /\ BothValidated
    /\ Truthy(Get(fn.arg.record, "company_id"))
    /\ Trim(fn.arg.record["company_id"]) # ""
    => Compared(fn.out.det) = Compared(fn.out.employee)

\* both entry points have reported the same two errors, in the same order,
\* for a record with a company_id and a sequence that starts with a number
C26_Witness ==
    /\ BothValidated
    /\ fn.arg.record["record_sequence"] = "12abc"
    /\ Get(fn.arg.record, "company_id") = "ACME"
    /\ Len(fn.out.det) = 2
    /\ Compared(fn.out.det) = Compared(fn.out.employee)
    /\ fn.arg.rowIndex = 3

(***************************************************************************)
(* processMessyData on its own.  A row is a detail row whose canonical     *)
(* address and name fields and whose combined fields are drawn from small   *)
(* sets (UNDEFINED: the row has no such field); the caller's list holds no  *)
(* warning or one of an earlier row.                                       *)
(***************************************************************************)
HomeStreets == {"1 Main St", "", "  ", UNDEFINED}

HomeCities == {"Aiken", ""}

HomeAddresses ==
    {UNDEFINED, "", "   ", "12 Elm St, Suite 4, Columbia, SC 29201-1234",
     "12 Elm St, Columbia, SC 29201 ", "Columbia, SC 29201", "SC 29201", "29201",
     "12 Elm St, Columbia, SC", ", 129201"}

WorkStreets == {"2 Oak Ave", ""}

WorkAddresses == {UNDEFINED, "9 Pine Rd, Aiken, SC 29801", "Remote"}

FirstNames == {"Ann", ""}

LastNames == {"Lee", ""}

FullNames == {UNDEFINED, "Madonna", "Mary Ann Smith", "  Jo   Doe "}

\* the row with the fields set, or without those whose value is UNDEFINED
WithFields(row, pairs) ==
    [k \in (DOMAIN row \ {pairs[i][1] : i \in {j \in DOMAIN pairs : pairs[j][2] = UNDEFINED}})
             \cup {pairs[i][1] : i \in {j \in DOMAIN pairs : pairs[j][2] # UNDEFINED}} |->
        IF \E i \in DOMAIN pairs : pairs[i][1] = k
        THEN pairs[CHOOSE i \in DOMAIN pairs : pairs[i][1] = k][2]
        ELSE row[k]]

MessyRows ==
    {WithFields(Put(BaseRow, "job_title", " Dev "),
                << <<"home_street", hs>>, <<"home_city", hc>>, <<"home_address", ha>>,
                   <<"work_street", ws>>, <<"work_address", wa>>,
                   <<"first_name", fi>>, <<"last_name", la>>, <<"full_name", fu>> >>) :
        hs \in HomeStreets, hc \in HomeCities, ha \in HomeAddresses,
        ws \in WorkStreets, wa \in WorkAddresses,
        fi \in FirstNames, la \in LastNames, fu \in FullNames}

\* what the caller's list holds before the call
EarlierWarnings ==
    {<<>>,
     <<Warning(BaseRow, 1, "full_name", "Al Roe",
               "Combined name field split into first_name and last_name", 1)>>}

InitMessy ==
    /\ fn \in {[InitFn EXCEPT !.arg = [row |-> row, rowIndex |-> Len(earlier) + 1,
                                       warnings |-> earlier]] :
                  row \in MessyRows, earlier \in EarlierWarnings}
    /\ ls = InitStorage
    /\ heap = <<>>
    /\ app = InitApp
    /\ parse = InitParse
    /\ proc = InitProc
    /\ dash = NoDash
    /\ tick = 2

\* a call of processMessyData(row, rowIndex, warnings)
CallProcessMessyData ==
    /\ fn.op = ""
    /\ fn' = [fn EXCEPT !.op = "processMessyData",
                        !.out = processMessyData(fn.arg.row, fn.arg.rowIndex,
                                                 fn.arg.warnings, tick),
                        !.calls = @ + 1]
    /\ tick' = fn'.out.t
    /\ UNCHANGED <<ls, heap, app, parse, proc, dash>>

NextMessy == CallProcessMessyData

SpecMessy == InitMessy /\ [][NextMessy]_vars

CombinedFields == {"home_address", "work_address", "full_name"}

\* the warnings the call has appended to the caller's list
Appended ==
    SubSeq(fn.out.warnings, Len(fn.arg.warnings) + 1, Len(fn.out.warnings))

\* C23: processMessyData of a row that has none of home_address,
\* work_address and full_name returns a row with exactly the same keys and
\* values, and appends nothing to the caller's warnings.
C23_CanonicalRowIsUnchanged ==
    fn.op = "processMessyData" /\ DOMAIN fn.arg.row \cap CombinedFields = {} =>
        /\ fn.out.row = fn.arg.row
        /\ fn.out.warnings = fn.arg.warnings

\* a row with no combined field and a padded value has been returned, with
\* the earlier warning still the only one of the list
C23_Witness ==
    /\ fn.op = "processMessyData"
    /\ DOMAIN fn.arg.row \cap CombinedFields = {}
    /\ fn.out.row["job_title"] = " Dev "
    /\ Len(fn.out.warnings) = 1

AddressGroups == {"home", "work"}

\* the length of the 5-digit or ZIP+4 code the text ends in, 0 if it ends in
\* neither
EndingZip(text) ==
    LET n == Len(text)
        five(last) == last >= 5 /\ \A i \in (last - 4)..last : Char(text, i) \in Digits
    IN  IF five(n - 5) /\ Char(text, n - 4) = "-"
           /\ \A i \in (n - 3)..n : Char(text, i) \in Digits
        THEN 10
        ELSE IF five(n) THEN 5 ELSE 0

\* the comma-separated parts of the text before its ending code
PartsBefore(text, zipLen) ==
    TrimAll(Split(Trim(SubSeq(text, 1, Len(text) - zipLen)), ",", ""))

\* the group's street is empty and its combined field has a text
GroupIsCombined(row, group) ==
    /\ ~Truthy(Get(row, group \o "_street"))
    /\ Truthy(Get(row, group \o "_address"))

\* the appended warnings that name the field
AppendedFor(field) == {k \in DOMAIN Appended : Appended[k].field = field}

\* what C24 says of one group whose combined text is given without the
\* white space around it
GroupIsSplit(group, text, parts) ==
    /\ (group \o "_address") \notin DOMAIN fn.out.row
    /\ IF EndingZip(text) > 0 /\ Len(parts) >= 2
       THEN /\ Get(fn.out.row, group \o "_state") = parts[Len(parts)]
            /\ Get(fn.out.row, group \o "_city") = parts[Len(parts) - 1]
            /\ Get(fn.out.row, group \o "_street")
                  = Join(SubSeq(parts, 1, Len(parts) - 2), ", ")
            /\ Get(fn.out.row, group \o "_zip")
                  = SubSeq(text, Len(text) - EndingZip(text) + 1, Len(text))
            /\ Cardinality(AppendedFor(group \o "_address")) = 1
       ELSE /\ \A sub \in {"_street", "_city", "_state", "_zip"} :
                  Get(fn.out.row, group \o sub) = Get(fn.arg.row, group \o sub)
            /\ AppendedFor(group \o "_address") = {}

CanonicalFields ==
    {"home_street", "home_city", "home_state", "home_zip",
     "work_street", "work_city", "work_state", "work_zip", "first_name", "last_name"}

\* C29: processMessyData never replaces a non-empty canonical value: every
\* canonical field that is non-empty in the input row has the same value in
\* the returned row, whatever the combined fields hold.
C29_NonEmptyCanonicalValuesKept ==
    fn.op = "processMessyData" =>
        \A field \in CanonicalFields :
            Truthy(Get(fn.arg.row, field)) =>
                Get(fn.out.row, field) = fn.arg.row[field]

\* a row with a city and no street has been given the city of its combined
\* address
C29_Witness ==
    /\ fn.op = "processMessyData"
    /\ Get(fn.arg.row, "home_city") = "Aiken"
    /\ Get(fn.arg.row, "home_address") = "Columbia, SC 29201"
    /\ Get(fn.out.row, "home_city") = "Columbia"

(***************************************************************************)
(* Properties of the progress callback of processEmployees.                *)
(***************************************************************************)
\* the values of current in the invocations of onProgress, in their order
ProgressCurrents == [k \in DOMAIN proc.run.progress |-> proc.run.progress[k].current]

\* C27: processEmployees invokes the progress callback once after every
\* record of the batch, with current taking the values 1..n in row order,
\* and the invocation for the last record reports isComplete = true.
C27_ProgressAfterEveryRecord ==
    proc.run.status = "done" =>
        /\ ProgressCurrents = [k \in 1..Len(proc.run.employees) |-> k]
        /\ proc.run.progress[Len(proc.run.progress)].isComplete

\* a run of two records has returned after one invocation of the callback,
\* for the first record, which did not report completion: the second record
\* was skipped by the gate
C27_Witness ==
    /\ proc.run.status = "done"
    /\ Len(proc.run.employees) = 2
    /\ SkippedAt(2) # {}
    /\ ProgressCurrents = <<1>>
    /\ ~proc.run.progress[1].isComplete

(***************************************************************************)
(* The pipeline on one file: processCSV row by row, App's                  *)
(* handleUploadComplete, then processEmployees on the rows that were       *)
(* returned.  The files have up to MaxRows data rows under ParseHeader:    *)
(* header and footer rows, detail rows with combined columns, with a       *)
(* malformed SSN, without a record sequence, with a pending I-9.  The row  *)
(* at position k of a file has the employee_id "E<k>".                     *)
(***************************************************************************)
qMessyBad == [pMessy EXCEPT !["ssn"] = "123456789"]
qMessyPending == [pMessy EXCEPT !["i9_status"] = "Pending_Section_2"]

PipelineRowKinds == {pDet, pHdr, pFtr, pNoSeq, qMessyBad, qMessyPending}

PipelineFiles ==
    {[k \in DOMAIN rows |-> [rows[k] EXCEPT !["employee_id"] = "E" \o NatToString(k)]] :
        rows \in UNION {[1..n -> PipelineRowKinds] : n \in 1..MaxRows}}

InitPipeline ==
    /\ parse \in {[status |-> "parsing", header |-> ParseHeader, rows |-> rows, pos |-> 0,
                   p |-> ParserStart(1), threw |-> {}, doneThrew |-> FALSE] :
                     rows \in PipelineFiles}
    /\ ls = InitStorage
    /\ heap = <<>>
    /\ app = InitApp
    /\ proc = InitProc
    /\ dash = NoDash
    /\ tick = 1
    /\ fn = InitFn

\* App.handleUploadComplete with what processCSV resolved to
PipelineUpload ==
    /\ parse.status = "resolved"
    /\ parse' = [parse EXCEPT !.status = "uploaded"]
    /\ heap' = parse.p.processedRows
    /\ app' = [app EXCEPT !.employees = [k \in DOMAIN parse.p.processedRows |-> k],
                          !.warnings = parse.p.warnings,
                          !.headerFields = parse.p.headerFields,
                          !.activeTab = "process"]
    /\ tick' = parse.p.t
    /\ UNCHANGED <<ls, proc, dash, fn>>

\* the call of processEmployees(employees, { headerFields, onProgress }) on
\* the uploaded rows
PipelineProcess ==
    /\ parse.status = "uploaded"
    /\ proc.runs = 0
    /\ \E throwsAt \in SUBSET DOMAIN app.employees :
          Advance(RunToAwait(StartRun(app.employees, app.headerFields, throwsAt, FALSE, tick),
                             ls, heap),
                  proc.runs + 1, dash)
    /\ UNCHANGED <<heap, app, parse, fn>>

NextPipeline == ParseRow \/ ParseDone \/ PipelineUpload \/ PipelineProcess \/ ResumeProcess

SpecPipeline == InitPipeline /\ [][NextPipeline]_vars

\* the rows of the entries of a list are in ascending order
RowsAscend(entries) ==
    \A i, j \in DOMAIN entries : i < j => entries[i].row <= entries[j].row

\* the logs of the run without the first and the last
RowLogs == SubSeq(proc.run.result.logs, 2, Len(proc.run.result.logs) - 1)

StartsWith(s, head) == Len(s) >= Len(head) /\ SubSeq(s, 1, Len(head)) = head

\* C25: in the warnings of processCSV and in the logs that processEmployees
\* returns, an entry for an earlier row never comes after an entry for a
\* later row, and the logs start with the 'Starting processing' entry and
\* end with the 'Processing complete' entry.
C25_WarningsAndLogsInRowOrder ==
    /\ RowsAscend(parse.p.warnings)
    /\ proc.run.status = "done" =>
          /\ StartsWith(proc.run.result.logs[1].message, "Starting processing")
          /\ StartsWith(proc.run.result.logs[Len(proc.run.result.logs)].message,
                        "Processing complete")
          /\ \A k \in DOMAIN RowLogs : RowLogs[k].row \in DOMAIN proc.run.employees
          /\ RowsAscend(RowLogs)

\* a file of two detail rows has given a warning for each row and, in the
\* run that returned, log entries for both rows
C25_Witness ==
    /\ proc.run.status = "done"
    /\ Len(proc.run.employees) = 2
    /\ {parse.p.warnings[k].row : k \in DOMAIN parse.p.warnings} = {1, 2}
    /\ {RowLogs[k].row : k \in DOMAIN RowLogs} = {1, 2}
    /\ Len(RowLogs) >= 3

\* the employee_id of the detail record at position k of the batch
RecordId(k) == heap[proc.run.employees[k]]["employee_id"]

\* the row numbers that the stage's entries carry for the record with the id
WarningRows(id) ==
    {parse.p.warnings[j].row : j \in {i \in DOMAIN parse.p.warnings :
                                         parse.p.warnings[i].rowId = id}}

ValidationRows(id) ==
    {proc.run.result.errors[j].row : j \in {i \in DOMAIN proc.run.result.errors :
                                               proc.run.result.errors[i].rowId = id}}

LogRows(id) ==
    {proc.run.result.logs[j].row : j \in {i \in DOMAIN proc.run.result.logs :
                                             proc.run.result.logs[i].employeeId = id}}

\* the row numbers of the parse errors for a missing record sequence, and
\* the row numbers of the logs of the records that have none
MissingSequenceRows ==
    {parse.p.errors[j].row : j \in {i \in DOMAIN parse.p.errors :
                                       Contains(parse.p.errors[i].message,
                                                "Missing required field 'record_sequence'")}}

NoSequenceLogRows ==
    UNION {LogRows(parse.p.detRecords[k]["employee_id"]) :
              k \in {i \in DOMAIN parse.p.detRecords :
                        parse.p.detRecords[i]["record_sequence"] = ""}}

\* C30: for every detail record of an uploaded file, the row number carried
\* by its warnings and parse errors from processCSV equals the row number
\* carried by its validation errors and logs from processEmployees, for
\* files with and without header and footer rows.
C30_RowNumbersAgreeAcrossStages ==
    proc.run.status = "done" =>
        /\ \A k \in DOMAIN proc.run.employees :
              \A row \in WarningRows(RecordId(k)) :
                  /\ ValidationRows(RecordId(k)) \subseteq {row}
                  /\ LogRows(RecordId(k)) = {row}
        /\ MissingSequenceRows = NoSequenceLogRows

\* a file of a header row and one detail row has been processed: the
\* record's warnings carry row 2, its validation error and its logs row 1
C30_Witness ==
    /\ proc.run.status = "done"
    /\ Len(parse.rows) = 2
    /\ parse.rows[1]["record_type"] = "HDR"
    /\ Len(proc.run.employees) = 1
    /\ WarningRows(RecordId(1)) = {2}
    /\ ValidationRows(RecordId(1)) = {1}
    /\ LogRows(RecordId(1)) = {1}

(***************************************************************************)
(* The application after the upload of a file with one malformed SSN, with *)
(* the provider download of the dashboard.  The record can be corrected in *)
(* the modal and the file processed again, up to MaxDownloadRuns times,    *)
(* and a provider file downloaded up to MaxDownloads times.                *)
(***************************************************************************)
MaxDownloadRuns == 2
MaxDownloads == 1

rSsn == Put(Put(BaseRow, "employee_id", "E5"), "ssn", "123456789")

DownloadFile == <<rSsn, rOk>>

CanDownload_ignoringErrors ==
    /\ dash.hasResult
    /\ Len(dash.result.processedEmployees) > 0

\* canDownload of the dashboard
CanDownload ==
    /\ dash.hasResult
    /\ Len(dash.result.processedEmployees) > 0
    /\ Len(dash.result.errors) = 0
    /\ Len(dash.result.warnings) = 0
    /\ Len(app.warnings) = 0

\* the state after the upload of DownloadFile from the upload tab
InitDownload ==
    LET p == processCSV(BaseHeader, DownloadFile, 1)
    IN  /\ ls = InitStorage
        /\ heap = p.processedRows
        /\ app = [InitApp EXCEPT !.employees = [k \in DOMAIN p.processedRows |-> k],
                                 !.warnings = p.warnings,
                                 !.headerFields = p.headerFields,
                                 !.activeTab = "process"]
        /\ parse = [InitParse EXCEPT !.uploads = 1, !.returned = p]
        /\ proc = [InitProc EXCEPT !.budget = MaxDownloadRuns]
        /\ dash = NoDash
        /\ tick = p.t
        /\ fn = InitFn

\* the records that handleDownloadADP / handleDownloadQuickBooks export
ProviderRecords(provider) ==
    [k \in DOMAIN dash.result.processedEmployees |->
        IF provider = "ADP" THEN dash.result.processedEmployees[k].adpRecord
        ELSE dash.result.processedEmployees[k].quickBooksRecord]

\* handleDownloadProvider with the provider selected; the button is disabled
\* unless canDownload
DownloadProvider(provider) ==
    /\ ~app.crashed
    /\ app.activeTab = "process"
    /\ CanDownload
    /\ fn.calls < MaxDownloads
    /\ fn' = [fn EXCEPT !.op = "download", !.arg = provider,
                        !.out = ProviderRecords(provider), !.calls = @ + 1]
    /\ UNCHANGED <<ls, heap, app, parse, proc, dash, tick>>

NextDownload == Next \/ \E provider \in Providers : DownloadProvider(provider)

SpecDownload == InitDownload /\ [][NextDownload]_vars

\* the provider records of the displayed result are the transformations of
\* the records as they are now
ProviderRecordsCurrent ==
    \A k \in DOMAIN dash.result.processedEmployees :
        LET entry == dash.result.processedEmployees[k]
        IN  /\ entry.adpRecord = transformToADP(ls, heap[entry.employee]).record
            /\ entry.quickBooksRecord = transformToQuickBooks(ls, heap[entry.employee]).record

\* C28: the provider download is enabled only while the latest result has a
\* processed employee, no errors and no warnings; whenever it is enabled,
\* no processed record has changed since its provider records were
\* computed, and each downloaded provider record is the transformation of
\* the current record.
C28_DownloadedRecordsAreCurrent ==
    /\ [](CanDownload => ProviderRecordsCurrent)
    /\ [][fn'.op = "download" /\ fn' # fn =>
            /\ dash.hasResult
            /\ Len(dash.result.processedEmployees) > 0
            /\ Len(dash.result.errors) = 0
            /\ Len(dash.result.warnings) = 0
            /\ fn'.out = [k \in DOMAIN dash.result.processedEmployees |->
                  IF fn'.arg = "ADP"
                  THEN transformToADP(ls, heap[dash.result.processedEmployees[k].employee]).record
                  ELSE transformToQuickBooks(
                           ls, heap[dash.result.processedEmployees[k].employee]).record]]_vars

\* the ADP file has been downloaded after the SSN was corrected in the modal
\* and the file processed again
C28_Witness ==
    /\ fn.op = "download"
    /\ fn.arg = "ADP"
    /\ Len(ls.corrections) = 1
    /\ proc.runs = 2
    /\ Len(fn.out) = 2
    /\ fn.out[1]["SSN"] = "987-65-4321"

=============================================================================
